---- MODULE Spec2Model ----
(***************************************************************************)
(* Client-side caching and data-freshness layer of the LP strategy         *)
(* dashboard: the State Cache of src/store/enhancedLPStore.ts (TTL map,    *)
(* LRU pruning, hit/miss counters, cache-key derivation, form), the        *)
(* Offline Cache of public/sw.js (service-worker lifecycle, fetch          *)
(* strategies, message and sync listeners), the error normalisation of     *)
(* src/utils/api.ts and handleAnalyze of the fee calculator panel.         *)
(***************************************************************************)
EXTENDS Integers, Sequences, FiniteSets, TLC

(***************************************************************************)
(* Bounds of the model.                                                    *)
(***************************************************************************)
\* calls of cache handlers (get, set, clear, prune) in one behaviour of Spec
MaxCalls == 3
\* calls of cache handlers in one behaviour of SpecLRU
MaxLRUCalls == 4
\* whole minutes the clock may advance
MaxMinutes == 1
\* calls of cache handlers in one behaviour of SpecFrame
MaxFrameCalls == 4
\* analyses timed by trackAnalysis in one behaviour of SpecFrame
MaxAnalyses == 2
\* fetch events in one behaviour of SpecFetch
MaxFetchEvents == 3
\* requests handleAnalyze issues in one behaviour of SpecAnalyze
MaxAnalyzeCalls == 2
\* fetch events in one behaviour of SpecOffline
MaxOfflineFetches == 2
\* message and sync events in one behaviour of SpecOffline
MaxWorkerEvents == 2

\* keys of the analyses map, keys of the OHLCV map, payloads
AnalysisKeys == {"a1", "a2", "a3"}
OhlcvKeys == {"o1", "o2"}
Data == {"d1", "d2"}
\* offsets within a minute, in ms, at which the clock is read
MsOffsets == {0, 1}
\* values updatePreferences is called with
CacheExpiryChoices == {0, 1}
MaxCacheSizeChoices == {1, 2}

\* keys and payloads of SpecFrame
FrameAnalysisKeys == {"a1"}
FrameOhlcvKeys == {"o1"}
FrameData == {"d1"}
\* durations trackAnalysis is called with, in ms
Durations == {1, 2}

\* JavaScript null / "absent"
NULL == "null"

\* how the storage under the worker behaves, the tags of sync events
StorageModes == {"ok", "openRejects", "putRejects"}
SyncTags == {"sync-analysis", "sync-settings"}

\* the pools setSelectedPool is called with, the form updates of the panel
PanelPools == {NULL, "0.0.3964804"}
PanelUpdates ==
  {[priceLower |-> [num |-> 30, den |-> 100]],
   [priceLower |-> [num |-> 22, den |-> 100]],
   [liquidityUsd |-> 0],
   [liquidityUsd |-> 10000]}

VARIABLES
  \* -- the store (src/store/enhancedLPStore.ts)
  now,          \* Date.now(), in ms
  analyses,     \* cache.analyses: Map in insertion order, a sequence of entries
  ohlcv,        \* cache.ohlcv:    Map in insertion order, a sequence of entries
  pools,        \* cache.pools: CacheEntry | null, a sequence of 0 or 1 entry
  preferences,  \* preferences.cacheExpiry (minutes), preferences.maxCacheSize
  performance,  \* PerformanceMetrics
  lastOp,       \* the last handler call: name, arguments, clock reading,
                \* branch taken and return value
  ncalls,       \* number of cache handler calls made so far
  getCalls,     \* number of get calls made so far
  inserted,     \* the distinct keys given to setCachedAnalysis since
                \* maxCacheSize was last set and the cache last cleared
  storeForm,    \* state.form: LPStrategyForm
  \* -- two calls of generateCacheKey and what they returned
  callA, callB, \* the arguments [poolId, form] of the first and second call
  keyA, keyB,   \* what the calls returned (or that they threw)
  kpc,          \* "idle", or which call is next: "first", "second", "done"
  \* -- the service worker (public/sw.js) and the browser around it
  swState,        \* ServiceWorker.state of this version of the worker
  installPc,      \* where the promise chain of the install listener stands
  fetched,        \* cache.addAll: per asset "pending", "ok" or "failed"
  addAllRejected, \* cache.addAll rejected
  cacheStorage,   \* CacheStorage: per bucket name, whether it exists, its URLs
  skipWaitingFlag,\* self.skipWaiting() has been called
  previous,       \* "none", or a previous version "active" / "replaced"
  activatePc,     \* where the promise chain of the activate listener stands
  toDelete,       \* the bucket names the activate listener still deletes
  claimed,        \* self.clients.claim() has been called
  \* -- fetch events handled by the activated worker (public/sw.js)
  swNow,          \* new Date() in the worker, in ms
  stored,         \* the response held under <<bucket name, URL>>, if any
  pendingPuts,    \* the cache.put calls that were made and have not finished
  handler,        \* the fetch event being handled, or the last one handled
  \* -- a failed backend call (src/utils/api.ts)
  axiosError,     \* the error the response interceptor is given
  rejection,      \* the messages of the errors it threw, 0 or 1 so far
  \* -- the fee calculator panel and the store it uses (lpStrategyStore)
  selectedPool,   \* selectedPool: NULL or a pool
  results,        \* results: a sequence of 0 (null) or 1 analysis
  ui,             \* ui.isLoading, ui.error (a sequence of 0 or 1 message)
  isAnalyzing,    \* the panel's isAnalyzing state
  calls,          \* the requests analyzeStrategy has issued, each with the
                  \* form it was issued for and how it ended
  \* -- message and sync events of the worker, and the storage under it
  storageMode,    \* "ok", or how CacheStorage fails: "openRejects" while
                  \* caches.open rejects, "putRejects" while cache.put does
  cacheMessage,   \* the CACHE_ANALYSIS messages handled and how the promise
                  \* of the last one settled
  syncRun,        \* the sync events handled and what the last one found,
                  \* replayed and deleted
  clientMessages  \* the messages the worker posted to its clients

storeVars == <<now, analyses, ohlcv, pools, preferences, performance,
               lastOp, ncalls, getCalls, inserted, storeForm>>

keyVars == <<callA, callB, keyA, keyB, kpc>>

swVars == <<swState, installPc, fetched, addAllRejected, cacheStorage,
            skipWaitingFlag, previous, activatePc, toDelete, claimed>>

\* the worker's state but for CacheStorage
lifecycleVars == <<swState, installPc, fetched, addAllRejected,
                   skipWaitingFlag, previous, activatePc, toDelete, claimed>>

fetchVars == <<swNow, stored, pendingPuts, handler>>

errVars == <<axiosError, rejection>>

panelVars == <<selectedPool, results, ui, isAnalyzing, calls>>

offlineVars == <<storageMode, cacheMessage, syncRun, clientMessages>>

vars == <<storeVars, keyVars, swVars, fetchVars, errVars, panelVars,
          offlineVars>>

(***************************************************************************)
(* Map<string, CacheEntry> as a sequence of entries carrying their key,    *)
(* in the Map's insertion order.                                           *)
(***************************************************************************)
Keys(m) == {m[i].key : i \in DOMAIN m}

Has(m, key) == key \in Keys(m)

IndexOf(m, key) == CHOOSE i \in DOMAIN m : m[i].key = key

\* Map.prototype.get, for a key the map has
MapGet(m, key) == m[IndexOf(m, key)]

\* Map.prototype.set: an existing key keeps its position, a new key is appended
MapSet(m, key, entry) ==
  IF Has(m, key)
    THEN [m EXCEPT ![IndexOf(m, key)] = entry]
    ELSE Append(m, entry)

\* Map.prototype.delete
MapDelete(m, key) ==
  IF Has(m, key)
    THEN LET i == IndexOf(m, key)
         IN  SubSeq(m, 1, i - 1) \o SubSeq(m, i + 1, Len(m))
    ELSE m

\* a / b of two JavaScript numbers, kept as the exact quotient; 0 / 0 is NaN
Quotient(a, b) == [num |-> a, den |-> b]

IsNaN(q) == q.num = 0 /\ q.den = 0

(***************************************************************************)
(* The store's constants and initial state.                                *)
(***************************************************************************)
defaultPreferences == [cacheExpiry |-> 30, maxCacheSize |-> 100]

\* lastAnalysisTime is a sequence of 0 or 1 number: null, or a clock reading
defaultPerformance ==
  [analysesRun |-> 0, lastAnalysisTime |-> <<>>,
   averageAnalysisTime |-> Quotient(0, 1), cacheHitRate |-> Quotient(0, 1),
   totalCacheHits |-> 0, totalCacheMisses |-> 0]

\* the prices 0.22 and 0.26 are kept as exact quotients
defaultForm ==
  [poolId |-> "0.0.3964804", priceLower |-> Quotient(22, 100),
   priceUpper |-> Quotient(26, 100), liquidityUsd |-> 10000,
   bearCaseDrop |-> 20, bullCaseRise |-> 20, timeHorizonDays |-> 30,
   advancedMode |-> FALSE, backtestMode |-> FALSE]

NoCall ==
  [op |-> "none", key |-> NULL, data |-> NULL, at |-> 0,
   outcome |-> "none", ret |-> NULL]

StoreInit ==
  /\ now = 0
  /\ analyses = <<>>
  /\ ohlcv = <<>>
  /\ pools = <<>>
  /\ preferences = defaultPreferences
  /\ performance = defaultPerformance
  /\ lastOp = NoCall
  /\ ncalls = 0
  /\ getCalls = 0
  /\ inserted = {}
  /\ storeForm = defaultForm

(***************************************************************************)
(* Performance tracking.                                                   *)
(***************************************************************************)
trackCacheHit(perf) ==
  LET hits == perf.totalCacheHits + 1
  IN  [perf EXCEPT !.totalCacheHits = hits,
                   !.cacheHitRate = Quotient(hits, hits + perf.totalCacheMisses)]

\* trackCacheMiss that leaves cacheHitRate as it was
trackCacheMissStaleRate(perf) ==
  [perf EXCEPT !.totalCacheMisses = @ + 1]

trackCacheMiss(perf) ==
  LET misses == perf.totalCacheMisses + 1
  IN  [perf EXCEPT !.totalCacheMisses = misses,
                   !.cacheHitRate =
                      Quotient(perf.totalCacheHits, perf.totalCacheHits + misses)]

getPerformanceStats == performance

(***************************************************************************)
(* Staleness.                                                              *)
(***************************************************************************)
\* isDataStale that already expires an entry at the boundary
isDataStaleAtBoundary(timestamp) ==
  now - timestamp >= preferences.cacheExpiry * 60 * 1000

isDataStale(timestamp) ==
  LET expiryMs == preferences.cacheExpiry * 60 * 1000
  IN  now - timestamp > expiryMs

\* a fresh CacheEntry for `data` under `key`
NewEntry(key, data) ==
  [key |-> key, data |-> data, timestamp |-> now,
   accessCount |-> 0, lastAccessed |-> now]

\* a read that forgets entry.accessCount++
TouchNoCount(entry) ==
  [entry EXCEPT !.lastAccessed = now]

\* a hit that also restamps the entry: entry.timestamp = Date.now()
TouchRestamps(entry) ==
  [entry EXCEPT !.accessCount = @ + 1, !.lastAccessed = now, !.timestamp = now]

\* entry.accessCount++; entry.lastAccessed = Date.now()
Touch(entry) ==
  [entry EXCEPT !.accessCount = @ + 1, !.lastAccessed = now]

(***************************************************************************)
(* pruneCache: stable sort by lastAccessed ascending, keep the last        *)
(* maxCacheSize entries.                                                   *)
(***************************************************************************)
RECURSIVE InsertSorted(_, _)
InsertSorted(sorted, e) ==
  IF sorted = <<>> THEN <<e>>
  ELSE IF sorted[Len(sorted)].lastAccessed - e.lastAccessed <= 0
         THEN Append(sorted, e)
         ELSE Append(InsertSorted(SubSeq(sorted, 1, Len(sorted) - 1), e),
                     sorted[Len(sorted)])

RECURSIVE SortByLastAccessed(_)
SortByLastAccessed(m) ==
  IF m = <<>> THEN <<>>
  ELSE InsertSorted(SortByLastAccessed(SubSeq(m, 1, Len(m) - 1)), m[Len(m)])

\* Array.prototype.slice(start) for 0 <= start
Slice(s, start) == SubSeq(s, start + 1, Len(s))

\* pruning that drops the sort: the oldest insertions go
PrunedByInsertion(m, maxCacheSize) ==
  IF Len(m) <= maxCacheSize THEN m
  ELSE Slice(m, Len(m) - maxCacheSize)

Pruned(m, maxCacheSize) ==
  IF Len(m) <= maxCacheSize THEN m
  ELSE LET entries == SortByLastAccessed(m)
       IN  Slice(entries, Len(entries) - maxCacheSize)

(***************************************************************************)
(* Handlers of the store.  A handler runs to completion, synchronously, at *)
(* one reading `now` of the clock.                                         *)
(***************************************************************************)
Called(op, key, data, outcome, ret) ==
  /\ ncalls' = ncalls + 1
  /\ getCalls' = IF outcome = "void" THEN getCalls ELSE getCalls + 1
  /\ lastOp' = [op |-> op, key |-> key, data |-> data, at |-> now,
                outcome |-> outcome, ret |-> ret]
  /\ inserted' = IF op = "setCachedAnalysis" THEN inserted \cup {key}
                 ELSE IF op = "clearCache" THEN {}
                 ELSE inserted
  /\ UNCHANGED <<storeForm, keyVars, swVars, fetchVars, errVars, panelVars, offlineVars>>

getCachedAnalysis(key) ==
  IF ~Has(analyses, key)
    THEN /\ performance' = trackCacheMiss(performance)
         /\ Called("getCachedAnalysis", key, NULL, "absent", NULL)
         /\ UNCHANGED <<now, analyses, ohlcv, pools, preferences>>
  ELSE IF isDataStale(MapGet(analyses, key).timestamp)
    THEN /\ analyses' = MapDelete(analyses, key)
         /\ performance' = trackCacheMiss(performance)
         /\ Called("getCachedAnalysis", key, NULL, "stale", NULL)
         /\ UNCHANGED <<now, ohlcv, pools, preferences>>
  ELSE /\ analyses' = MapSet(analyses, key, Touch(MapGet(analyses, key)))
       /\ performance' = trackCacheHit(performance)
       /\ Called("getCachedAnalysis", key, NULL, "fresh",
                 MapGet(analyses, key).data)
       /\ UNCHANGED <<now, ohlcv, pools, preferences>>

setCachedAnalysis(key, data) ==
  LET newAnalyses == MapSet(analyses, key, NewEntry(key, data))
  IN  /\ analyses' = IF Len(newAnalyses) > preferences.maxCacheSize
                       THEN Pruned(newAnalyses, preferences.maxCacheSize)
                       ELSE newAnalyses
      /\ Called("setCachedAnalysis", key, data, "void", NULL)
      /\ UNCHANGED <<now, ohlcv, pools, preferences, performance>>

getCachedPools ==
  IF pools = <<>>
    THEN /\ performance' = trackCacheMiss(performance)
         /\ Called("getCachedPools", "pools", NULL, "absent", NULL)
         /\ UNCHANGED <<now, analyses, ohlcv, pools, preferences>>
  ELSE IF isDataStale(pools[1].timestamp)
    THEN /\ pools' = <<>>
         /\ performance' = trackCacheMiss(performance)
         /\ Called("getCachedPools", "pools", NULL, "stale", NULL)
         /\ UNCHANGED <<now, analyses, ohlcv, preferences>>
  ELSE /\ pools' = <<Touch(pools[1])>>
       /\ performance' = trackCacheHit(performance)
       /\ Called("getCachedPools", "pools", NULL, "fresh", pools[1].data)
       /\ UNCHANGED <<now, analyses, ohlcv, preferences>>

\* setCachedPools that writes cache: { pools } without ...state.cache
setCachedPoolsAlone(data) ==
  /\ pools' = <<NewEntry("pools", data)>>
  /\ analyses' = <<>>
  /\ ohlcv' = <<>>
  /\ Called("setCachedPools", "pools", data, "void", NULL)
  /\ UNCHANGED <<now, preferences, performance>>

setCachedPools(data) ==
  /\ pools' = <<NewEntry("pools", data)>>
  /\ Called("setCachedPools", "pools", data, "void", NULL)
  /\ UNCHANGED <<now, analyses, ohlcv, preferences, performance>>

getCachedOHLCV(key) ==
  IF ~Has(ohlcv, key)
    THEN /\ performance' = trackCacheMiss(performance)
         /\ Called("getCachedOHLCV", key, NULL, "absent", NULL)
         /\ UNCHANGED <<now, analyses, ohlcv, pools, preferences>>
  ELSE IF isDataStale(MapGet(ohlcv, key).timestamp)
    THEN /\ ohlcv' = MapDelete(ohlcv, key)
         /\ performance' = trackCacheMiss(performance)
         /\ Called("getCachedOHLCV", key, NULL, "stale", NULL)
         /\ UNCHANGED <<now, analyses, pools, preferences>>
  ELSE /\ ohlcv' = MapSet(ohlcv, key, Touch(MapGet(ohlcv, key)))
       /\ performance' = trackCacheHit(performance)
       /\ Called("getCachedOHLCV", key, NULL, "fresh", MapGet(ohlcv, key).data)
       /\ UNCHANGED <<now, analyses, pools, preferences>>

setCachedOHLCV(key, data) ==
  /\ ohlcv' = MapSet(ohlcv, key, NewEntry(key, data))
  /\ Called("setCachedOHLCV", key, data, "void", NULL)
  /\ UNCHANGED <<now, analyses, pools, preferences, performance>>

\* clearCache that also resets the performance metrics
clearCacheAndMetrics ==
  /\ analyses' = <<>>
  /\ pools' = <<>>
  /\ ohlcv' = <<>>
  /\ performance' = defaultPerformance
  /\ Called("clearCache", NULL, NULL, "void", NULL)
  /\ UNCHANGED <<now, preferences>>

clearCache ==
  /\ analyses' = <<>>
  /\ pools' = <<>>
  /\ ohlcv' = <<>>
  /\ Called("clearCache", NULL, NULL, "void", NULL)
  /\ UNCHANGED <<now, preferences, performance>>

pruneCache ==
  /\ analyses' = Pruned(analyses, preferences.maxCacheSize)
  /\ Called("pruneCache", NULL, NULL, "void", NULL)
  /\ UNCHANGED <<now, ohlcv, pools, preferences, performance>>

\* updatePreferences that applies the new maxCacheSize at once
updatePreferencesEagerly(updates) ==
  /\ preferences' = [cacheExpiry |-> updates.cacheExpiry,
                     maxCacheSize |-> updates.maxCacheSize]
  /\ analyses' = IF Len(analyses) > updates.maxCacheSize
                   THEN Pruned(analyses, updates.maxCacheSize)
                   ELSE analyses
  /\ inserted' = {}
  /\ UNCHANGED <<now, ohlcv, pools, performance,
                 lastOp, ncalls, getCalls, storeForm, keyVars, swVars, fetchVars, errVars, panelVars, offlineVars>>

updatePreferences(updates) ==
  /\ preferences' = [cacheExpiry |-> updates.cacheExpiry,
                     maxCacheSize |-> updates.maxCacheSize]
  /\ inserted' = {}
  /\ UNCHANGED <<now, analyses, ohlcv, pools, performance,
                 lastOp, ncalls, getCalls, storeForm, keyVars, swVars, fetchVars, errVars, panelVars, offlineVars>>

(***************************************************************************)
(* The form and the analysis timings.                                      *)
(***************************************************************************)
\* { ...state.form, ...updates }
Spread(object, updates) ==
  [name \in DOMAIN object \cup DOMAIN updates |->
     IF name \in DOMAIN updates THEN updates[name] ELSE object[name]]

setForm(updates) ==
  /\ storeForm' = Spread(storeForm, updates)
  /\ UNCHANGED <<now, analyses, ohlcv, pools, preferences, performance,
                 lastOp, ncalls, getCalls, inserted, keyVars, swVars, fetchVars, errVars, panelVars, offlineVars>>

resetForm ==
  /\ storeForm' = defaultForm
  /\ UNCHANGED <<now, analyses, ohlcv, pools, preferences, performance,
                 lastOp, ncalls, getCalls, inserted, keyVars, swVars, fetchVars, errVars, panelVars, offlineVars>>

\* the running average (average * (n - 1) + duration) / n, kept exact
trackAnalysis(duration) ==
  LET analysesRun == performance.analysesRun + 1
      average == performance.averageAnalysisTime
  IN  /\ performance' =
           [performance EXCEPT
              !.analysesRun = analysesRun,
              !.lastAnalysisTime = <<now>>,
              !.averageAnalysisTime =
                 IF analysesRun = 1 THEN Quotient(duration, 1)
                 ELSE Quotient(average.num * (analysesRun - 1)
                                 + duration * average.den,
                               average.den * analysesRun)]
      /\ UNCHANGED <<now, analyses, ohlcv, pools, preferences,
                     lastOp, ncalls, getCalls, inserted, storeForm,
                     keyVars, swVars, fetchVars, errVars, panelVars, offlineVars>>

(***************************************************************************)
(* The clock: Date.now() never goes back.                                  *)
(***************************************************************************)
TickMs ==
  /\ (now % (60 * 1000)) + 1 \in MsOffsets
  /\ now' = now + 1
  /\ UNCHANGED <<analyses, ohlcv, pools, preferences, performance,
                 lastOp, ncalls, getCalls, inserted, storeForm,
                 keyVars, swVars, fetchVars, errVars, panelVars, offlineVars>>

TickMinute ==
  /\ now \div (60 * 1000) < MaxMinutes
  /\ now' = now + 60 * 1000
  /\ UNCHANGED <<analyses, ohlcv, pools, preferences, performance,
                 lastOp, ncalls, getCalls, inserted, storeForm,
                 keyVars, swVars, fetchVars, errVars, panelVars, offlineVars>>

(***************************************************************************)
(* JavaScript values and text.  A text is the sequence of its character    *)
(* codes; a number is an integer, NaN, Infinity or -Infinity.              *)
(***************************************************************************)
Undefined == [t |-> "undefined", n |-> 0, s |-> <<>>]

NaN == [t |-> "NaN", n |-> 0, s |-> <<>>]

PosInfinity == [t |-> "Infinity", n |-> 0, s |-> <<>>]

NegInfinity == [t |-> "-Infinity", n |-> 0, s |-> <<>>]

JsNumber(n) == [t |-> "number", n |-> n, s |-> <<>>]

JsBoolean(b) == [t |-> "boolean", n |-> IF b THEN 1 ELSE 0, s |-> <<>>]

JsString(s) == [t |-> "string", n |-> 0, s |-> s]

\* the spelling of the property names, query parameter names and literals
Chars ==
  [poolId |-> <<112, 111, 111, 108, 73, 100>>,
   priceLower |-> <<112, 114, 105, 99, 101, 76, 111, 119, 101, 114>>,
   priceUpper |-> <<112, 114, 105, 99, 101, 85, 112, 112, 101, 114>>,
   liquidityUsd |-> <<108, 105, 113, 117, 105, 100, 105, 116, 121, 85, 115, 100>>,
   bearCaseDrop |-> <<98, 101, 97, 114, 67, 97, 115, 101, 68, 114, 111, 112>>,
   bullCaseRise |-> <<98, 117, 108, 108, 67, 97, 115, 101, 82, 105, 115, 101>>,
   timeHorizonDays |-> <<116, 105, 109, 101, 72, 111, 114, 105, 122, 111, 110,
                         68, 97, 121, 115>>,
   advancedMode |-> <<97, 100, 118, 97, 110, 99, 101, 100, 77, 111, 100, 101>>,
   backtestMode |-> <<98, 97, 99, 107, 116, 101, 115, 116, 77, 111, 100, 101>>,
   pool_id |-> <<112, 111, 111, 108, 95, 105, 100>>,
   price_lower |-> <<112, 114, 105, 99, 101, 95, 108, 111, 119, 101, 114>>,
   price_upper |-> <<112, 114, 105, 99, 101, 95, 117, 112, 112, 101, 114>>,
   liquidity_usd |-> <<108, 105, 113, 117, 105, 100, 105, 116, 121, 95, 117,
                       115, 100>>,
   bear_case_drop |-> <<98, 101, 97, 114, 95, 99, 97, 115, 101, 95, 100, 114,
                        111, 112>>,
   bull_case_rise |-> <<98, 117, 108, 108, 95, 99, 97, 115, 101, 95, 114, 105,
                        115, 101>>,
   time_horizon_days |-> <<116, 105, 109, 101, 95, 104, 111, 114, 105, 122, 111,
                           110, 95, 100, 97, 121, 115>>,
   advanced_mode |-> <<97, 100, 118, 97, 110, 99, 101, 100, 95, 109, 111, 100,
                       101>>,
   backtest_mode |-> <<98, 97, 99, 107, 116, 101, 115, 116, 95, 109, 111, 100,
                       101>>,
   null |-> <<110, 117, 108, 108>>,
   undefined |-> <<117, 110, 100, 101, 102, 105, 110, 101, 100>>,
   true |-> <<116, 114, 117, 101>>,
   false |-> <<102, 97, 108, 115, 101>>,
   NaN |-> <<78, 97, 78>>,
   Infinity |-> <<73, 110, 102, 105, 110, 105, 116, 121>>,
   NegInfinity |-> <<45, 73, 110, 102, 105, 110, 105, 116, 121>>]

RECURSIVE DecimalDigits(_)
DecimalDigits(n) ==
  IF n < 10 THEN <<48 + n>>
  ELSE Append(DecimalDigits(n \div 10), 48 + (n % 10))

\* Number::toString of an integer
NumberToString(n) ==
  IF n < 0 THEN <<45>> \o DecimalDigits(0 - n) ELSE DecimalDigits(n)

RECURSIVE Join(_, _)
Join(parts, sep) ==
  IF parts = <<>> THEN <<>>
  ELSE IF Len(parts) = 1 THEN parts[1]
  ELSE parts[1] \o sep \o Join(Tail(parts), sep)

(***************************************************************************)
(* JSON.stringify of an object of primitive values.  An object is the      *)
(* sequence of its <<name, value>> properties in property order.  A        *)
(* property whose value is undefined is left out; NaN, Infinity and        *)
(* -Infinity are written as null.                                          *)
(***************************************************************************)
RECURSIVE EscapeJSON(_)
EscapeJSON(s) ==
  IF s = <<>> THEN <<>>
  ELSE (IF Head(s) \in {34, 92} THEN <<92, Head(s)>> ELSE <<Head(s)>>)
         \o EscapeJSON(Tail(s))

QuoteJSONString(s) == <<34>> \o EscapeJSON(s) \o <<34>>

SerializeJSONProperty(v) ==
  IF v.t = "number" THEN NumberToString(v.n)
  ELSE IF v.t = "boolean" THEN (IF v.n = 1 THEN Chars["true"] ELSE Chars["false"])
  ELSE IF v.t = "string" THEN QuoteJSONString(v.s)
  ELSE Chars["null"]

RECURSIVE JSONMembers(_)
JSONMembers(obj) ==
  IF obj = <<>> THEN <<>>
  ELSE LET name  == Head(obj)[1]
           value == Head(obj)[2]
           rest  == JSONMembers(Tail(obj))
       IN  IF value = Undefined THEN rest
           ELSE <<QuoteJSONString(Chars[name]) \o <<58>>
                     \o SerializeJSONProperty(value)>> \o rest

JSONStringify(obj) == <<123>> \o Join(JSONMembers(obj), <<44>>) \o <<125>>

(***************************************************************************)
(* btoa: base64 of a text of Latin-1 characters; any other character makes *)
(* it throw InvalidCharacterError.                                         *)
(***************************************************************************)
Base64Alphabet ==
  <<65, 66, 67, 68, 69, 70, 71, 72, 73, 74, 75, 76, 77, 78, 79, 80, 81, 82, 83,
    84, 85, 86, 87, 88, 89, 90, 97, 98, 99, 100, 101, 102, 103, 104, 105, 106,
    107, 108, 109, 110, 111, 112, 113, 114, 115, 116, 117, 118, 119, 120, 121,
    122, 48, 49, 50, 51, 52, 53, 54, 55, 56, 57, 43, 47>>

Base64Char(sextet) == Base64Alphabet[sextet + 1]

RECURSIVE Base64(_)
Base64(bytes) ==
  IF bytes = <<>> THEN <<>>
  ELSE LET a == bytes[1]
           b == IF Len(bytes) >= 2 THEN bytes[2] ELSE 0
           c == IF Len(bytes) >= 3 THEN bytes[3] ELSE 0
       IN  <<Base64Char(a \div 4),
             Base64Char((a % 4) * 16 + (b \div 16)),
             IF Len(bytes) >= 2 THEN Base64Char((b % 16) * 4 + (c \div 64))
                                ELSE 61,
             IF Len(bytes) >= 3 THEN Base64Char(c % 64) ELSE 61>>
           \o (IF Len(bytes) > 3 THEN Base64(SubSeq(bytes, 4, Len(bytes)))
                                 ELSE <<>>)

Returned(text) == [threw |-> FALSE, value |-> text]

Threw == [threw |-> TRUE, value |-> <<>>]

btoa(text) ==
  IF \E i \in DOMAIN text : text[i] > 255 THEN Threw
  ELSE Returned(Base64(text))

(***************************************************************************)
(* Cache-key derivation.  A form is an object: the sequence of its         *)
(* <<name, value>> properties; a property it lacks reads as undefined.     *)
(***************************************************************************)
FormGet(form, name) ==
  IF \E i \in DOMAIN form : form[i][1] = name
    THEN form[CHOOSE i \in DOMAIN form : form[i][1] = name][2]
    ELSE Undefined

\* generateCacheKey that serialises the form as it is given
generateCacheKeyOfForm(poolId, form) ==
  btoa(JSONStringify(<<<<"poolId", poolId>>>>
         \o SelectSeq(form, LAMBDA p : p[1] # "poolId")))

generateCacheKey(poolId, form) ==
  LET keyData ==
        << <<"poolId", poolId>>,
           <<"priceLower", FormGet(form, "priceLower")>>,
           <<"priceUpper", FormGet(form, "priceUpper")>>,
           <<"liquidityUsd", FormGet(form, "liquidityUsd")>>,
           <<"bearCaseDrop", FormGet(form, "bearCaseDrop")>>,
           <<"bullCaseRise", FormGet(form, "bullCaseRise")>>,
           <<"timeHorizonDays", FormGet(form, "timeHorizonDays")>>,
           <<"advancedMode", FormGet(form, "advancedMode")>>,
           <<"backtestMode", FormGet(form, "backtestMode")>> >>
  IN  btoa(JSONStringify(keyData))

(***************************************************************************)
(* The query string analyzeStrategy sends for its parameters.              *)
(***************************************************************************)
\* ToBoolean(v) is false
Falsy(v) ==
  \/ v.t \in {"undefined", "NaN"}
  \/ v.t \in {"number", "boolean"} /\ v.n = 0
  \/ v.t = "string" /\ v.s = <<>>

\* v || d
OrElse(v, d) == IF Falsy(v) THEN d ELSE v

\* v.toString(); a TypeError when v is undefined
toString(v) ==
  IF v.t = "undefined" THEN Threw
  ELSE IF v.t = "number" THEN Returned(NumberToString(v.n))
  ELSE IF v.t = "boolean"
    THEN Returned(IF v.n = 1 THEN Chars["true"] ELSE Chars["false"])
  ELSE IF v.t = "string" THEN Returned(v.s)
  ELSE IF v.t = "NaN" THEN Returned(Chars["NaN"])
  ELSE IF v.t = "Infinity" THEN Returned(Chars["Infinity"])
  ELSE Returned(Chars["NegInfinity"])

HexDigits == <<48, 49, 50, 51, 52, 53, 54, 55, 56, 57, 65, 66, 67, 68, 69, 70>>

PercentEncodeByte(b) ==
  <<37, HexDigits[(b \div 16) + 1], HexDigits[(b % 16) + 1]>>

Utf8(c) ==
  IF c < 128 THEN <<c>>
  ELSE IF c < 2048 THEN <<192 + (c \div 64), 128 + (c % 64)>>
  ELSE <<224 + (c \div 4096), 128 + ((c \div 64) % 64), 128 + (c % 64)>>

\* application/x-www-form-urlencoded serialisation, as URLSearchParams does it
RECURSIVE UrlEncode(_)
UrlEncode(s) ==
  IF s = <<>> THEN <<>>
  ELSE LET c == Head(s)
           plain == \/ c \in 48..57 \/ c \in 65..90 \/ c \in 97..122
                    \/ c \in {42, 45, 46, 95}
       IN  (IF plain THEN <<c>>
            ELSE IF c = 32 THEN <<43>>
            ELSE Join([i \in DOMAIN Utf8(c) |-> PercentEncodeByte(Utf8(c)[i])],
                      <<>>))
           \o UrlEncode(Tail(s))

\* the string a URLSearchParams value becomes
ToUSVString(v) ==
  IF v.t = "undefined" THEN Returned(Chars["undefined"]) ELSE toString(v)

analyzeStrategyQuery(params) ==
  LET P(name) == FormGet(params, name)
      query ==
        << <<"pool_id", ToUSVString(P("poolId"))>>,
           <<"price_lower", toString(P("priceLower"))>>,
           <<"price_upper", toString(P("priceUpper"))>>,
           <<"liquidity_usd", toString(P("liquidityUsd"))>>,
           <<"bear_case_drop", toString(OrElse(P("bearCaseDrop"), JsNumber(20)))>>,
           <<"bull_case_rise", toString(OrElse(P("bullCaseRise"), JsNumber(20)))>>,
           <<"time_horizon_days",
             toString(OrElse(P("timeHorizonDays"), JsNumber(30)))>>,
           <<"advanced_mode",
             toString(OrElse(P("advancedMode"), JsBoolean(FALSE)))>>,
           <<"backtest_mode",
             toString(OrElse(P("backtestMode"), JsBoolean(FALSE)))>> >>
  IN  IF \E i \in DOMAIN query : query[i][2].threw THEN Threw
      ELSE Returned(Join([i \in DOMAIN query |->
                            Chars[query[i][1]] \o <<61>>
                              \o UrlEncode(query[i][2].value)],
                         <<38>>))

(***************************************************************************)
(* Two calls of generateCacheKey, with a tick of the clock between them.   *)
(***************************************************************************)
\* the form fields that generateCacheKey reads
KeyFields ==
  {"priceLower", "priceUpper", "liquidityUsd", "bearCaseDrop", "bullCaseRise",
   "timeHorizonDays", "advancedMode", "backtestMode"}

\* a complete form in the property order of the store's form
SampleForm ==
  << <<"poolId", JsString(<<48, 46, 48, 46, 49>>)>>,
     <<"priceLower", JsNumber(1)>>,
     <<"priceUpper", JsNumber(3)>>,
     <<"liquidityUsd", JsNumber(10000)>>,
     <<"bearCaseDrop", JsNumber(20)>>,
     <<"bullCaseRise", JsNumber(20)>>,
     <<"timeHorizonDays", JsNumber(30)>>,
     <<"advancedMode", JsBoolean(FALSE)>>,
     <<"backtestMode", JsBoolean(FALSE)>> >>

\* pool ids: "0.0.1", "0.0.2", and one with a character outside Latin-1
PoolIdA == JsString(<<48, 46, 48, 46, 49>>)
PoolIdB == JsString(<<48, 46, 48, 46, 50>>)
PoolIdPi == JsString(<<48, 46, 960>>)

FieldChoices(name) ==
  IF name \in {"advancedMode", "backtestMode"}
    THEN {JsBoolean(TRUE), JsBoolean(FALSE), Undefined}
    ELSE {JsNumber(0), JsNumber(2), JsNumber(0 - 1), NaN, PosInfinity,
          NegInfinity, Undefined}

\* the form with property `name` set to v
WithField(form, name, v) ==
  IF \E i \in DOMAIN form : form[i][1] = name
    THEN [i \in DOMAIN form |->
            IF form[i][1] = name THEN <<name, v>> ELSE form[i]]
    ELSE Append(form, <<name, v>>)

\* the form without property `name`
Without(form, name) == SelectSeq(form, LAMBDA p : p[1] # name)

\* the same properties, enumerated in the opposite order
Reversed(form) == [i \in DOMAIN form |-> form[Len(form) + 1 - i]]

FormEdits(form) ==
  {form, Reversed(form), Without(form, "poolId"),
   WithField(form, "poolId", PoolIdB),
   Reversed(WithField(form, "poolId", PoolIdB))}
    \cup UNION {{WithField(form, f, v) : v \in FieldChoices(f)} : f \in KeyFields}
    \cup {Without(form, f) : f \in KeyFields}

NoKey == Returned(<<>>)

NoArgs == [poolId |-> Undefined, form |-> <<>>]

KeyIdle ==
  /\ callA = NoArgs
  /\ callB = NoArgs
  /\ keyA = NoKey
  /\ keyB = NoKey
  /\ kpc = "idle"

KeyInit ==
  /\ callA \in [poolId : {PoolIdA, PoolIdPi}, form : FormEdits(SampleForm)]
  /\ callB \in [poolId : {callA.poolId, PoolIdB}, form : FormEdits(callA.form)]
  /\ keyA = NoKey
  /\ keyB = NoKey
  /\ kpc = "first"

GenerateFirst ==
  /\ kpc = "first"
  /\ keyA' = generateCacheKey(callA.poolId, callA.form)
  /\ kpc' = "second"
  /\ UNCHANGED <<callA, callB, keyB, storeVars, swVars, fetchVars,
                 errVars, panelVars, offlineVars>>

GenerateSecond ==
  /\ kpc = "second"
  /\ keyB' = generateCacheKey(callB.poolId, callB.form)
  /\ kpc' = "done"
  /\ UNCHANGED <<callA, callB, keyA, storeVars, swVars, fetchVars,
                 errVars, panelVars, offlineVars>>

(***************************************************************************)
(* The service worker: constants of public/sw.js.                          *)
(***************************************************************************)
STATIC_CACHE_NAME == "lp-analyzer-static-v1.0.0"

DYNAMIC_CACHE_NAME == "lp-analyzer-dynamic-v1.0.0"

STATIC_ASSETS ==
  {"/", "/index.html", "/static/js/main.js", "/static/css/main.css",
   "/manifest.json"}

\* bucket names a previous version of the worker left behind
OldCacheNames == {"lp-analyzer-static-v0.9.0", "lp-analyzer-dynamic-v0.9.0"}

CacheNames == {STATIC_CACHE_NAME, DYNAMIC_CACHE_NAME} \cup OldCacheNames

NoBucket == [exists |-> FALSE, urls |-> {}]

Bucket(urls) == [exists |-> TRUE, urls |-> urls]

\* a response: where it comes from, its status, the time of its Date header
\* (a sequence of 0 or 1 number) and the fetch event that fetched it
Response(origin, status, date, serial) ==
  [origin |-> origin, status |-> status, date |-> date, serial |-> serial]

\* no worker script evaluated yet, nothing in CacheStorage
SWIdle ==
  /\ swState = "parsed"
  /\ installPc = "idle"
  /\ fetched = [asset \in STATIC_ASSETS |-> "pending"]
  /\ addAllRejected = FALSE
  /\ cacheStorage = [name \in CacheNames |-> NoBucket]
  /\ skipWaitingFlag = FALSE
  /\ previous = "none"
  /\ activatePc = "idle"
  /\ toDelete = {}
  /\ claimed = FALSE

\* the buckets a previous worker that used these names left behind
LeftBy(names) ==
  [name \in CacheNames |->
     IF name \notin names THEN NoBucket
     ELSE IF name \in {STATIC_CACHE_NAME, "lp-analyzer-static-v0.9.0"}
       THEN Bucket(STATIC_ASSETS)
     ELSE Bucket({"/api/pools"})]

\* the worker script is evaluated, on a first visit or as an update of a
\* previous worker that controls the open pages and left its buckets: under
\* the names of an older version, or under the current names when the
\* script changed and the names did not
SWInit ==
  /\ swState = "parsed"
  /\ installPc = "idle"
  /\ fetched = [asset \in STATIC_ASSETS |-> "pending"]
  /\ addAllRejected = FALSE
  /\ previous \in {"none", "active"}
  /\ cacheStorage \in
       IF previous = "none" THEN {LeftBy({})}
       ELSE {LeftBy(OldCacheNames),
             LeftBy({STATIC_CACHE_NAME, DYNAMIC_CACHE_NAME})}
  /\ skipWaitingFlag = FALSE
  /\ activatePc = "idle"
  /\ toDelete = {}
  /\ claimed = FALSE

(***************************************************************************)
(* The install listener: event.waitUntil(caches.open(STATIC_CACHE_NAME)    *)
(*   .then(cache => cache.addAll(STATIC_ASSETS))                           *)
(*   .then(() => self.skipWaiting()).catch(error => console.error(...)))   *)
(***************************************************************************)
InstallEvent ==
  /\ swState = "parsed"
  /\ swState' = "installing"
  /\ installPc' = "open"
  /\ UNCHANGED <<fetched, addAllRejected, cacheStorage, skipWaitingFlag,
                 previous, activatePc, toDelete, claimed, storeVars, keyVars,
                 fetchVars, errVars, panelVars, offlineVars>>

\* caches.open creates the bucket if there is none
CachesOpen ==
  /\ installPc = "open"
  /\ cacheStorage' =
       [cacheStorage EXCEPT ![STATIC_CACHE_NAME] = Bucket(@.urls)]
  /\ installPc' = "addAll"
  /\ UNCHANGED <<swState, fetched, addAllRejected, skipWaitingFlag,
                 previous, activatePc, toDelete, claimed, storeVars, keyVars,
                 fetchVars, errVars, panelVars, offlineVars>>

\* cache.addAll requests every asset; a request succeeds (ok response) or
\* fails (network error or a response that is not ok)
AddAllFetch(asset, result) ==
  /\ installPc = "addAll"
  /\ fetched[asset] = "pending"
  /\ fetched' = [fetched EXCEPT ![asset] = result]
  /\ UNCHANGED <<swState, installPc, addAllRejected, cacheStorage,
                 skipWaitingFlag, previous, activatePc, toDelete, claimed,
                 storeVars, keyVars,
                 fetchVars, errVars, panelVars, offlineVars>>

\* every request succeeded: all the responses are stored in one step
AddAllResolve ==
  /\ installPc = "addAll"
  /\ \A asset \in STATIC_ASSETS : fetched[asset] = "ok"
  /\ cacheStorage' =
       [cacheStorage EXCEPT ![STATIC_CACHE_NAME] = Bucket(@.urls \cup STATIC_ASSETS)]
  /\ stored' = [k \in DOMAIN stored |->
                  IF k[1] = STATIC_CACHE_NAME /\ k[2] \in STATIC_ASSETS
                    THEN <<Response("addAll", 200, <<>>, 0)>>
                    ELSE stored[k]]
  /\ installPc' = "then"
  /\ UNCHANGED <<swState, fetched, addAllRejected, skipWaitingFlag,
                 previous, activatePc, toDelete, claimed, storeVars, keyVars,
                 swNow, pendingPuts, handler, errVars, panelVars, offlineVars>>

\* a request failed: addAll rejects and stores nothing
AddAllReject ==
  /\ installPc = "addAll"
  /\ \E asset \in STATIC_ASSETS : fetched[asset] = "failed"
  /\ addAllRejected' = TRUE
  /\ installPc' = "catch"
  /\ UNCHANGED <<swState, fetched, cacheStorage, skipWaitingFlag,
                 previous, activatePc, toDelete, claimed, storeVars, keyVars,
                 fetchVars, errVars, panelVars, offlineVars>>

\* .then(() => self.skipWaiting())
ThenSkipWaiting ==
  /\ installPc = "then"
  /\ skipWaitingFlag' = TRUE
  /\ installPc' = "fulfilled"
  /\ UNCHANGED <<swState, fetched, addAllRejected, cacheStorage,
                 previous, activatePc, toDelete, claimed, storeVars, keyVars,
                 fetchVars, errVars, panelVars, offlineVars>>

\* .catch(error => console.error(...)): the handler returns, so the promise
\* given to event.waitUntil is fulfilled
CatchError ==
  /\ installPc = "catch"
  /\ installPc' = "fulfilled"
  /\ UNCHANGED <<swState, fetched, addAllRejected, cacheStorage,
                 skipWaitingFlag, previous, activatePc, toDelete, claimed,
                 storeVars, keyVars,
                 fetchVars, errVars, panelVars, offlineVars>>

\* the promise given to event.waitUntil has settled: the worker is installed
\* if it was fulfilled, redundant if it was rejected
InstallSettled ==
  /\ swState = "installing"
  /\ installPc \in {"fulfilled", "rejected"}
  /\ swState' = IF installPc = "fulfilled" THEN "installed" ELSE "redundant"
  /\ installPc' = "settled"
  /\ UNCHANGED <<fetched, addAllRejected, cacheStorage, skipWaitingFlag,
                 previous, activatePc, toDelete, claimed, storeVars, keyVars,
                 fetchVars, errVars, panelVars, offlineVars>>

(***************************************************************************)
(* Activation.  An installed worker activates when no other version is     *)
(* active or when skipWaiting() has been called.                           *)
(***************************************************************************)
\* the pages of the previous version are closed
PreviousRetires ==
  /\ previous = "active"
  /\ previous' = "none"
  /\ UNCHANGED <<swState, installPc, fetched, addAllRejected, cacheStorage,
                 skipWaitingFlag, activatePc, toDelete, claimed,
                 storeVars, keyVars,
                 fetchVars, errVars, panelVars, offlineVars>>

\* the message listener, for {type: 'SKIP_WAITING'}
MessageSkipWaiting ==
  /\ swState \in {"installing", "installed", "activating", "activated"}
  /\ ~skipWaitingFlag
  /\ skipWaitingFlag' = TRUE
  /\ UNCHANGED <<swState, installPc, fetched, addAllRejected, cacheStorage,
                 previous, activatePc, toDelete, claimed, storeVars, keyVars,
                 fetchVars, errVars, panelVars, offlineVars>>

ActivateEvent ==
  /\ swState = "installed"
  /\ previous # "active" \/ skipWaitingFlag
  /\ swState' = "activating"
  /\ previous' = IF previous = "active" THEN "replaced" ELSE previous
  /\ activatePc' = "keys"
  /\ UNCHANGED <<installPc, fetched, addAllRejected, cacheStorage,
                 skipWaitingFlag, toDelete, claimed, storeVars, keyVars,
                 fetchVars, errVars, panelVars, offlineVars>>

\* the filter that spares only the static bucket
IsNotStaticCache(cacheName) == cacheName # STATIC_CACHE_NAME

\* the filter of the activate listener: neither current bucket
IsOldCache(cacheName) ==
  cacheName # STATIC_CACHE_NAME /\ cacheName # DYNAMIC_CACHE_NAME

\* caches.keys(), filtered
ActivateKeys ==
  /\ activatePc = "keys"
  /\ toDelete' = {name \in CacheNames :
                    cacheStorage[name].exists /\ IsOldCache(name)}
  /\ activatePc' = "delete"
  /\ UNCHANGED <<swState, installPc, fetched, addAllRejected, cacheStorage,
                 skipWaitingFlag, previous, claimed, storeVars, keyVars,
                 fetchVars, errVars, panelVars, offlineVars>>

\* caches.delete(cacheName), one of the deletions of Promise.all
ActivateDelete(name) ==
  /\ activatePc = "delete"
  /\ name \in toDelete
  /\ cacheStorage' = [cacheStorage EXCEPT ![name] = NoBucket]
  /\ stored' = [k \in DOMAIN stored |->
                  IF k[1] = name THEN <<>> ELSE stored[k]]
  /\ toDelete' = toDelete \ {name}
  /\ UNCHANGED <<swState, installPc, fetched, addAllRejected,
                 skipWaitingFlag, previous, activatePc, claimed,
                 storeVars, keyVars, swNow, pendingPuts, handler, errVars, panelVars, offlineVars>>

\* .then(() => self.clients.claim()), and the worker is activated
ActivateClaim ==
  /\ activatePc = "delete"
  /\ toDelete = {}
  /\ claimed' = TRUE
  /\ swState' = "activated"
  /\ activatePc' = "done"
  /\ UNCHANGED <<installPc, fetched, addAllRejected, cacheStorage,
                 skipWaitingFlag, previous, toDelete, storeVars, keyVars,
                 fetchVars, errVars, panelVars, offlineVars>>

(***************************************************************************)
(* Fetch events.  A URL is named by its pathname; TextOf gives the         *)
(* character codes of the pathnames and of the literals the worker tests   *)
(* them against.                                                           *)
(***************************************************************************)
TextOf ==
     ("/" :> <<47>>)
  @@ ("/index.html" :> <<47, 105, 110, 100, 101, 120, 46, 104, 116, 109,
         108>>)
  @@ ("/static/js/main.js" :> <<47, 115, 116, 97, 116, 105, 99, 47, 106, 115,
         47, 109, 97, 105, 110, 46, 106, 115>>)
  @@ ("/static/css/main.css" :> <<47, 115, 116, 97, 116, 105, 99, 47, 99,
         115, 115, 47, 109, 97, 105, 110, 46, 99, 115, 115>>)
  @@ ("/manifest.json" :> <<47, 109, 97, 110, 105, 102, 101, 115, 116, 46,
         106, 115, 111, 110>>)
  @@ ("/offline.html" :> <<47, 111, 102, 102, 108, 105, 110, 101, 46, 104,
         116, 109, 108>>)
  @@ ("/api/pools" :> <<47, 97, 112, 105, 47, 112, 111, 111, 108, 115>>)
  @@ ("/api/health" :> <<47, 97, 112, 105, 47, 104, 101, 97, 108, 116, 104>>)
  @@ ("/assets/logo.png" :> <<47, 97, 115, 115, 101, 116, 115, 47, 108, 111,
         103, 111, 46, 112, 110, 103>>)
  @@ ("/api/advanced-lp-strategy" :> <<47, 97, 112, 105, 47, 97, 100, 118,
         97, 110, 99, 101, 100, 45, 108, 112, 45, 115, 116, 114, 97, 116,
         101, 103, 121>>)
  @@ ("/assets/api/pools.png" :> <<47, 97, 115, 115, 101, 116, 115, 47, 97,
         112, 105, 47, 112, 111, 111, 108, 115, 46, 112, 110, 103>>)
  @@ ("/offline-analysis" :> <<47, 111, 102, 102, 108, 105, 110, 101, 45, 97,
         110, 97, 108, 121, 115, 105, 115>>)
  @@ ("/api/" :> <<47, 97, 112, 105, 47>>)
  @@ ("/api/ohlcv" :> <<47, 97, 112, 105, 47, 111, 104, 108, 99, 118>>)
  @@ ("/static/" :> <<47, 115, 116, 97, 116, 105, 99, 47>>)
  @@ ("/assets/" :> <<47, 97, 115, 115, 101, 116, 115, 47>>)
  @@ ("/health" :> <<47, 104, 101, 97, 108, 116, 104>>)
  @@ (".js" :> <<46, 106, 115>>)
  @@ (".css" :> <<46, 99, 115, 115>>)
  @@ (".png" :> <<46, 112, 110, 103>>)
  @@ (".jpg" :> <<46, 106, 112, 103>>)
  @@ (".jpeg" :> <<46, 106, 112, 101, 103>>)
  @@ (".gif" :> <<46, 103, 105, 102>>)
  @@ (".svg" :> <<46, 115, 118, 103>>)
  @@ (".woff" :> <<46, 119, 111, 102, 102>>)
  @@ (".woff2" :> <<46, 119, 111, 102, 102, 50>>)
  @@ (".ttf" :> <<46, 116, 116, 102>>)
  @@ (".eot" :> <<46, 101, 111, 116>>)

\* text.startsWith(prefix)
StartsWith(text, prefix) ==
  Len(text) >= Len(prefix) /\ SubSeq(text, 1, Len(prefix)) = prefix

\* text.includes(part); also pattern.test(text) for a pattern of literal
\* characters
Includes(text, part) ==
  \E i \in 1..(Len(text) - Len(part) + 1) :
     SubSeq(text, i, i + Len(part) - 1) = part

isAPIRequest(pathname) ==
  \/ StartsWith(pathname, TextOf["/api/"])
  \/ \E pattern \in {"/api/pools", "/api/health", "/api/ohlcv"} :
        Includes(pathname, TextOf[pattern])

\* the regular expression is \.(js|css|...)$: the pathname ends with one of
\* the extensions
isStaticAsset(pathname) ==
  \/ StartsWith(pathname, TextOf["/static/"])
  \/ StartsWith(pathname, TextOf["/assets/"])
  \/ \E ext \in {".js", ".css", ".png", ".jpg", ".jpeg", ".gif", ".svg",
                 ".woff", ".woff2", ".ttf", ".eot"} :
        /\ Len(pathname) >= Len(TextOf[ext])
        /\ SubSeq(pathname, Len(pathname) - Len(TextOf[ext]) + 1,
                  Len(pathname)) = TextOf[ext]

\* the requests the pages make
Requests ==
  {[url |-> "/", method |-> "GET", destination |-> "document"],
   [url |-> "/offline.html", method |-> "GET", destination |-> "document"],
   [url |-> "/api/health", method |-> "GET", destination |-> "document"],
   [url |-> "/api/health", method |-> "GET", destination |-> ""],
   [url |-> "/api/pools", method |-> "GET", destination |-> ""],
   [url |-> "/assets/logo.png", method |-> "GET", destination |-> "image"],
   [url |-> "/manifest.json", method |-> "GET", destination |-> "manifest"],
   [url |-> "/assets/api/pools.png", method |-> "GET",
    destination |-> "image"],
   [url |-> "/api/advanced-lp-strategy", method |-> "GET",
    destination |-> ""],
   [url |-> "/api/advanced-lp-strategy", method |-> "POST",
    destination |-> ""]}

\* what a fetch() of the worker comes to: it throws, or it resolves with a
\* response that is ok or not and that has a Date header or not
NetworkResults == [kind : {"ok", "notOk", "threw"}, dated : BOOLEAN]

\* readings of the worker's clock, all later than 5 minutes after the epoch
ClockReadings ==
  {10 * 60 * 1000 + elapsed : elapsed \in {0, 299000, 300000, 301000}}

\* what a previous worker or cache.addAll has put under each URL of a bucket
Content(storage) ==
  [k \in {STATIC_CACHE_NAME, DYNAMIC_CACHE_NAME}
           \X (STATIC_ASSETS \cup {request.url : request \in Requests}
                 \cup {"/offline-analysis"}) |->
     IF k[2] \in storage[k[1]].urls
       THEN <<Response("addAll", 200, <<>>, 0)>>
       ELSE <<>>]

NoHandler ==
  [n |-> 0, request |-> [url |-> "", method |-> "", destination |-> ""],
   strategy |-> "none", pc |-> "idle", cached |-> <<>>, network |-> "none",
   result |-> [kind |-> "none", response |-> <<>>]]

\* no fetch event yet
FetchIdle ==
  /\ swNow = 10 * 60 * 1000
  /\ stored = Content(cacheStorage)
  /\ pendingPuts = {}
  /\ handler = NoHandler

\* the worker is activated, after an install whose cache.addAll stored the
\* assets or rejected
SWActivated ==
  /\ swState = "activated"
  /\ installPc = "settled"
  /\ addAllRejected \in BOOLEAN
  /\ fetched = [asset \in STATIC_ASSETS |->
                  IF addAllRejected THEN "failed" ELSE "ok"]
  /\ cacheStorage =
       [name \in CacheNames |->
          IF name # STATIC_CACHE_NAME THEN NoBucket
          ELSE IF addAllRejected THEN Bucket({})
          ELSE Bucket(STATIC_ASSETS)]
  /\ skipWaitingFlag = ~addAllRejected
  /\ previous = "none"
  /\ activatePc = "done"
  /\ toDelete = {}
  /\ claimed = TRUE

\* caches.match(request): the buckets are searched in the order of their
\* creation, the static bucket first
Match(url) ==
  IF stored[<<STATIC_CACHE_NAME, url>>] # <<>>
    THEN stored[<<STATIC_CACHE_NAME, url>>]
    ELSE stored[<<DYNAMIC_CACHE_NAME, url>>]

\* the strategy resolves with a response, resolves with undefined, or rejects
Resolved(response) == [kind |-> "response", response |-> <<response>>]

ResolvedUndefined == [kind |-> "undefined", response |-> <<>>]

Rejected == [kind |-> "rejected", response |-> <<>>]

\* the fetch listener that tests isStaticAsset before isAPIRequest
FetchEventStaticFirst(request) ==
  LET pathname == TextOf[request.url]
      strategy ==
        IF request.method # "GET" THEN "none"
        ELSE IF request.destination = "document" THEN "networkFirst"
        ELSE IF isStaticAsset(pathname) THEN "cacheFirst"
        ELSE IF isAPIRequest(pathname) THEN "apiCache"
        ELSE "networkFirst"
  IN  /\ handler.pc \in {"idle", "done"}
      /\ handler.n < MaxFetchEvents
      /\ handler' =
           [n |-> handler.n + 1, request |-> request, strategy |-> strategy,
            pc |-> IF strategy = "none" THEN "done" ELSE "run",
            cached |-> <<>>, network |-> "none",
            result |-> [kind |-> IF strategy = "none" THEN "unhandled"
                                 ELSE "none",
                        response |-> <<>>]]
      /\ UNCHANGED <<swNow, stored, pendingPuts, cacheStorage, lifecycleVars,
                     storeVars, keyVars, errVars, panelVars, offlineVars>>

(***************************************************************************)
(* The fetch listener.                                                     *)
(***************************************************************************)
FetchEvent(request) ==
  LET pathname == TextOf[request.url]
      strategy ==
        IF request.method # "GET" THEN "none"
        ELSE IF request.destination = "document" THEN "networkFirst"
        ELSE IF isAPIRequest(pathname) THEN "apiCache"
        ELSE IF isStaticAsset(pathname) THEN "cacheFirst"
        ELSE "networkFirst"
  IN  /\ handler.pc \in {"idle", "done"}
      /\ handler.n < MaxFetchEvents
      /\ handler' =
           [n |-> handler.n + 1, request |-> request, strategy |-> strategy,
            pc |-> IF strategy = "none" THEN "done" ELSE "run",
            cached |-> <<>>, network |-> "none",
            result |-> [kind |-> IF strategy = "none" THEN "unhandled"
                                 ELSE "none",
                        response |-> <<>>]]
      /\ UNCHANGED <<swNow, stored, pendingPuts, cacheStorage, lifecycleVars,
                     storeVars, keyVars, errVars, panelVars, offlineVars>>

\* the response fetch(request) resolves with
NetworkResponse(net) ==
  Response("network", IF net.kind = "ok" THEN 200 ELSE 404,
           IF net.dated THEN <<swNow>> ELSE <<>>, handler.n)

\* the try block without the test of networkResponse.ok
TryFetchAnyStatus(bucket, net, cached, onError) ==
  /\ cacheStorage' =
       IF net.kind # "threw"
         THEN [cacheStorage EXCEPT ![bucket] = Bucket(@.urls)]
         ELSE cacheStorage
  /\ pendingPuts' =
       IF net.kind # "threw"
         THEN pendingPuts \cup {[bucket |-> bucket, url |-> handler.request.url,
                                 response |-> NetworkResponse(net)]}
         ELSE pendingPuts
  /\ handler' =
       [handler EXCEPT
          !.pc = "done",
          !.network = net.kind,
          !.cached = IF net.kind = "threw" THEN cached ELSE @,
          !.result = IF net.kind = "threw" THEN onError
                     ELSE Resolved(NetworkResponse(net))]
  /\ UNCHANGED <<swNow, stored, lifecycleVars, storeVars, keyVars, errVars, panelVars, offlineVars>>

\* try { networkResponse = await fetch(request); if (networkResponse.ok) {
\*   cache = await caches.open(bucket); cache.put(request, clone) }
\*   return networkResponse } catch (error) { ... }
\* cache.put is not awaited: the put is pending when the strategy returns,
\* and nobody sees it reject.  caches.open is awaited inside the try block:
\* when it rejects, the catch clause runs as it does when fetch throws.
\* `cached` is what the catch clause found, `onError` what it comes to.
TryFetch(bucket, net, cached, onError) ==
  LET openRejects == net.kind = "ok" /\ storageMode = "openRejects"
      caught == net.kind = "threw" \/ openRejects
  IN  /\ cacheStorage' =
           IF net.kind = "ok" /\ ~openRejects
             THEN [cacheStorage EXCEPT ![bucket] = Bucket(@.urls)]
             ELSE cacheStorage
      /\ pendingPuts' =
           IF net.kind = "ok" /\ storageMode = "ok"
             THEN pendingPuts \cup {[bucket |-> bucket,
                                     url |-> handler.request.url,
                                     response |-> NetworkResponse(net)]}
             ELSE pendingPuts
      /\ handler' =
           [handler EXCEPT
              !.pc = "done",
              !.network = net.kind,
              !.cached = IF caught THEN cached ELSE @,
              !.result = IF caught THEN onError
                         ELSE Resolved(NetworkResponse(net))]
      /\ UNCHANGED <<swNow, stored, lifecycleVars, storeVars, keyVars,
                     errVars, panelVars, offlineVars>>

\* in the catch clause, caches.match('/offline.html') || new Response(...) is
\* the promise of caches.match, which is truthy: the strategy resolves with
\* what that promise resolves with, undefined when nothing is cached
networkFirstStrategy(net) ==
  LET cachedResponse == Match(handler.request.url)
      offline == Match("/offline.html")
  IN  /\ handler.pc = "run"
      /\ handler.strategy = "networkFirst"
      /\ TryFetch(DYNAMIC_CACHE_NAME, net, cachedResponse,
                  IF cachedResponse # <<>> THEN Resolved(cachedResponse[1])
                  ELSE IF handler.request.destination = "document"
                    THEN IF offline # <<>> THEN Resolved(offline[1])
                         ELSE ResolvedUndefined
                  ELSE Rejected)

\* cacheFirstStrategy, up to its fetch
cacheFirstMatch ==
  LET cachedResponse == Match(handler.request.url)
  IN  /\ handler.pc = "run"
      /\ handler.strategy = "cacheFirst"
      /\ handler' =
           IF cachedResponse # <<>>
             THEN [handler EXCEPT !.pc = "done", !.cached = cachedResponse,
                                  !.result = Resolved(cachedResponse[1])]
             ELSE [handler EXCEPT !.pc = "fetch"]
      /\ UNCHANGED <<swNow, stored, pendingPuts, cacheStorage, lifecycleVars,
                     storeVars, keyVars, errVars, panelVars, offlineVars>>

\* cacheFirstStrategy, its fetch: the catch clause throws the error again
cacheFirstFetch(net) ==
  /\ handler.pc = "fetch"
  /\ handler.strategy = "cacheFirst"
  /\ TryFetch(STATIC_CACHE_NAME, net, <<>>, Rejected)

\* the health branch whose catch clause throws when nothing is cached
apiHealthCheckOrThrow(net) ==
  LET cachedResponse == Match(handler.request.url)
  IN  /\ handler.pc = "run"
      /\ handler.strategy = "apiCache"
      /\ Includes(TextOf[handler.request.url], TextOf["/health"])
      /\ handler' =
           [handler EXCEPT
              !.pc = "done",
              !.network = net.kind,
              !.cached = IF net.kind = "threw" THEN cachedResponse ELSE @,
              !.result =
                 IF net.kind # "threw" THEN Resolved(NetworkResponse(net))
                 ELSE IF cachedResponse # <<>>
                   THEN Resolved(cachedResponse[1])
                 ELSE Rejected]
      /\ UNCHANGED <<swNow, stored, pendingPuts, cacheStorage, lifecycleVars,
                     storeVars, keyVars, errVars, panelVars, offlineVars>>

\* apiCacheStrategy for a pathname that includes '/health': nothing is put;
\* the catch clause resolves with the cached response or with a 503
apiHealthCheck(net) ==
  LET cachedResponse == Match(handler.request.url)
  IN  /\ handler.pc = "run"
      /\ handler.strategy = "apiCache"
      /\ Includes(TextOf[handler.request.url], TextOf["/health"])
      /\ handler' =
           [handler EXCEPT
              !.pc = "done",
              !.network = net.kind,
              !.cached = IF net.kind = "threw" THEN cachedResponse ELSE @,
              !.result =
                 IF net.kind # "threw" THEN Resolved(NetworkResponse(net))
                 ELSE IF cachedResponse # <<>>
                   THEN Resolved(cachedResponse[1])
                 ELSE Resolved(Response("offline", 503, <<>>, handler.n))]
      /\ UNCHANGED <<swNow, stored, pendingPuts, cacheStorage, lifecycleVars,
                     storeVars, keyVars, errVars, panelVars, offlineVars>>

\* the freshness test that takes a response without a Date header for fresh
IsFreshOrUndated(cachedResponse) ==
  \/ cachedResponse.date = <<>>
  \/ swNow - cachedResponse.date[1] < 5 * 60 * 1000

\* now - new Date(cachedResponse.headers.get('date') || 0) < fiveMinutes
IsFresh(cachedResponse) ==
  LET cachedDate ==
        IF cachedResponse.date = <<>> THEN 0 ELSE cachedResponse.date[1]
  IN  swNow - cachedDate < 5 * 60 * 1000

\* apiCacheStrategy for another pathname, up to its fetch
apiCacheMatch ==
  LET cachedResponse == Match(handler.request.url)
  IN  /\ handler.pc = "run"
      /\ handler.strategy = "apiCache"
      /\ ~Includes(TextOf[handler.request.url], TextOf["/health"])
      /\ handler' =
           IF cachedResponse # <<>> /\ IsFresh(cachedResponse[1])
             THEN [handler EXCEPT !.pc = "done", !.cached = cachedResponse,
                                  !.result = Resolved(cachedResponse[1])]
             ELSE [handler EXCEPT !.pc = "fetch", !.cached = cachedResponse]
      /\ UNCHANGED <<swNow, stored, pendingPuts, cacheStorage, lifecycleVars,
                     storeVars, keyVars, errVars, panelVars, offlineVars>>

\* apiCacheStrategy whose catch clause always throws the error again
apiCacheFetchOrThrow(net) ==
  /\ handler.pc = "fetch"
  /\ handler.strategy = "apiCache"
  /\ TryFetch(DYNAMIC_CACHE_NAME, net, handler.cached, Rejected)

\* apiCacheStrategy, its fetch: the catch clause returns the response that
\* was found before the fetch, or throws the error again
apiCacheFetch(net) ==
  /\ handler.pc = "fetch"
  /\ handler.strategy = "apiCache"
  /\ TryFetch(DYNAMIC_CACHE_NAME, net, handler.cached,
              IF handler.cached # <<>> THEN Resolved(handler.cached[1])
              ELSE Rejected)

\* a pending cache.put finishes: the response replaces what the bucket held
\* under the URL
PutCompletes(put) ==
  /\ put \in pendingPuts
  /\ pendingPuts' = pendingPuts \ {put}
  /\ stored' = [stored EXCEPT ![<<put.bucket, put.url>>] = <<put.response>>]
  /\ cacheStorage' =
       [cacheStorage EXCEPT ![put.bucket] = Bucket(@.urls \cup {put.url})]
  /\ UNCHANGED <<swNow, handler, lifecycleVars, storeVars, keyVars, errVars, panelVars, offlineVars>>

\* time passes
Elapse(reading) ==
  /\ reading > swNow
  /\ swNow' = reading
  /\ UNCHANGED <<stored, pendingPuts, handler, swVars, storeVars, keyVars,
                 errVars, panelVars, offlineVars>>

(***************************************************************************)
(* Error normalisation: the rejection handler of api.interceptors.response.*)
(* An error carries the response, if one arrived, as a sequence of 0 or 1  *)
(* records [status, error], where error is the `error` property of the     *)
(* body as a sequence of 0 or 1 texts; its code; and its message.          *)
(***************************************************************************)
NoError == [response |-> <<>>, code |-> "", message |-> ""]

\* the errors the handler is given
AxiosErrors ==
  [response : {<<>>}
              \cup {<<r>> : r \in [status : {400, 404, 500, 503},
                                   error : {<<>>, <<"">>, <<"Pool not found">>}]},
   code : {"ECONNABORTED", "ERR_NETWORK", "ERR_BAD_REQUEST"},
   message : {"", "Network Error"}]

\* the handler with the test of the body's error property moved first
messageErrorFieldFirst(error) ==
  LET status == IF error.response = <<>> THEN 0 ELSE error.response[1].status
      dataError == IF error.response = <<>> \/ error.response[1].error = <<>>
                     THEN "" ELSE error.response[1].error[1]
  IN  IF dataError # "" THEN dataError
      ELSE IF status = 404
        THEN "Resource not found. Please check your inputs."
      ELSE IF status = 500 THEN "Server error. Please try again later."
      ELSE IF error.code = "ECONNABORTED"
        THEN "Request timeout. The analysis is taking longer than expected."
      ELSE IF error.message # "" THEN error.message
      ELSE "An unexpected error occurred"

\* the message of the Error the handler throws; status 0 and the text ""
\* stand for undefined (error.response?.status, error.response?.data?.error)
normalizedMessage(error) ==
  LET status == IF error.response = <<>> THEN 0 ELSE error.response[1].status
      dataError == IF error.response = <<>> \/ error.response[1].error = <<>>
                     THEN "" ELSE error.response[1].error[1]
  IN  IF status = 404 THEN "Resource not found. Please check your inputs."
      ELSE IF status = 500 THEN "Server error. Please try again later."
      ELSE IF error.code = "ECONNABORTED"
        THEN "Request timeout. The analysis is taking longer than expected."
      ELSE IF dataError # "" THEN dataError
      ELSE IF error.message # "" THEN error.message
      ELSE "An unexpected error occurred"

\* no backend call has failed
ErrIdle ==
  /\ axiosError = NoError
  /\ rejection = <<>>

ErrInit ==
  /\ axiosError \in AxiosErrors
  /\ rejection = <<>>

\* the rejection handler runs on the error and throws
ResponseRejected ==
  /\ axiosError # NoError
  /\ rejection = <<>>
  /\ rejection' = <<normalizedMessage(axiosError)>>
  /\ UNCHANGED <<axiosError, storeVars, keyVars, swVars, fetchVars,
                 panelVars, offlineVars>>

(***************************************************************************)
(* The fee calculator panel: its Analyze button and handleAnalyze.  The    *)
(* panel reads form, selectedPool and the setters from the plain store,    *)
(* whose form and setForm are those of the enhanced store.                 *)
(***************************************************************************)
defaultUI == [isLoading |-> FALSE, error |-> <<>>]

\* the panel is mounted and nothing was clicked
PanelIdle ==
  /\ selectedPool = NULL
  /\ results = <<>>
  /\ ui = defaultUI
  /\ isAnalyzing = FALSE
  /\ calls = <<>>

setSelectedPool(pool) ==
  /\ selectedPool' = pool
  /\ UNCHANGED <<results, ui, isAnalyzing, calls, storeVars, keyVars, swVars,
                 fetchVars, errVars, offlineVars>>

\* handleAnalyze up to its await; the button is disabled while isAnalyzing
handleAnalyze ==
  LET lower == storeForm.priceLower
      upper == storeForm.priceUpper
      setError(message) ==
        /\ ui' = [ui EXCEPT !.error = <<message>>]
        /\ UNCHANGED <<results, isAnalyzing, calls>>
  IN  /\ ~isAnalyzing
      /\ IF selectedPool = NULL
           THEN setError("Please select a valid pool first")
         ELSE IF lower.num * upper.den >= upper.num * lower.den
           THEN setError("Min price must be less than max price")
         ELSE IF storeForm.liquidityUsd <= 0
           THEN setError("Liquidity amount must be greater than 0")
         ELSE /\ isAnalyzing' = TRUE
              /\ ui' = [isLoading |-> TRUE, error |-> <<>>]
              /\ calls' = Append(calls, [form |-> storeForm,
                                         outcome |-> "pending",
                                         data |-> <<>>])
              /\ UNCHANGED results
      /\ UNCHANGED <<selectedPool, storeVars, keyVars, swVars, fetchVars,
                     errVars, offlineVars>>

\* analyzeStrategy resolved: setResults(results), then the finally block
AnalyzeResolves(data) ==
  /\ isAnalyzing
  /\ results' = <<data>>
  /\ isAnalyzing' = FALSE
  /\ ui' = [ui EXCEPT !.isLoading = FALSE]
  /\ calls' = [calls EXCEPT ![Len(calls)] =
                 [@ EXCEPT !.outcome = "ok", !.data = <<data>>]]
  /\ UNCHANGED <<selectedPool, storeVars, keyVars, swVars, fetchVars,
                 errVars, offlineVars>>

\* the catch block without setResults(null)
AnalyzeRejectsKeepsResults(error) ==
  /\ isAnalyzing
  /\ ui' = [isLoading |-> FALSE, error |-> <<normalizedMessage(error)>>]
  /\ isAnalyzing' = FALSE
  /\ calls' = [calls EXCEPT ![Len(calls)] = [@ EXCEPT !.outcome = "failed"]]
  /\ UNCHANGED <<results, selectedPool, storeVars, keyVars, swVars, fetchVars,
                 errVars, offlineVars>>

\* analyzeStrategy rejected with the Error the response interceptor threw:
\* setError(error.message), setResults(null), then the finally block
AnalyzeRejects(error) ==
  /\ isAnalyzing
  /\ ui' = [isLoading |-> FALSE, error |-> <<normalizedMessage(error)>>]
  /\ results' = <<>>
  /\ isAnalyzing' = FALSE
  /\ calls' = [calls EXCEPT ![Len(calls)] = [@ EXCEPT !.outcome = "failed"]]
  /\ UNCHANGED <<selectedPool, storeVars, keyVars, swVars, fetchVars,
                 errVars, offlineVars>>

(***************************************************************************)
(* Message and sync events of the worker.                                  *)
(***************************************************************************)
NoMessage == [n |-> 0, settled |-> "none", put |-> "none"]

NoSync == [n |-> 0, pending |-> {}, replayed |-> {}, deleted |-> {}]

\* storage works, no message and no sync event yet
OfflineIdle ==
  /\ storageMode = "ok"
  /\ cacheMessage = NoMessage
  /\ syncRun = NoSync
  /\ clientMessages = {}

\* the storage under the worker starts or stops failing
StorageTurns(mode) ==
  /\ mode # storageMode
  /\ storageMode' = mode
  /\ UNCHANGED <<cacheMessage, syncRun, clientMessages, storeVars, keyVars,
                 swVars, fetchVars, errVars, panelVars>>

\* the message listener for { type: 'CACHE_ANALYSIS' }: cacheAnalysisData
\* opens the dynamic bucket and awaits cache.put('/offline-analysis', ...)
\* inside try/catch, so the promise given to event.waitUntil is fulfilled
\* whether the put was made or not
cacheAnalysisData ==
  LET response == Response("message", 200, <<swNow>>, cacheMessage.n + 1)
  IN  /\ cacheMessage' =
           [n |-> cacheMessage.n + 1, settled |-> "fulfilled",
            put |-> IF storageMode = "ok" THEN "stored" ELSE "failed"]
      /\ stored' =
           IF storageMode = "ok"
             THEN [stored EXCEPT
                     ![<<DYNAMIC_CACHE_NAME, "/offline-analysis">>] =
                        <<response>>]
             ELSE stored
      /\ cacheStorage' =
           IF storageMode = "openRejects" THEN cacheStorage
           ELSE [cacheStorage EXCEPT
                   ![DYNAMIC_CACHE_NAME] =
                      Bucket(@.urls \cup IF storageMode = "ok"
                                           THEN {"/offline-analysis"}
                                           ELSE {})]
      /\ UNCHANGED <<storageMode, syncRun, clientMessages, swNow, pendingPuts,
                     handler, lifecycleVars, storeVars, keyVars, errVars,
                     panelVars>>

\* cache.keys(): the requests a bucket holds; a Cache only takes GET requests
CacheKeys(bucket) ==
  {[url |-> k[2], method |-> "GET"] :
     k \in {k \in DOMAIN stored : k[1] = bucket /\ stored[k] # <<>>}}

\* the sync listener whose filter does not test request.method
SyncEventAnyMethod(tag, net) ==
  LET requests == IF storageMode = "openRejects" THEN {}
                  ELSE CacheKeys(DYNAMIC_CACHE_NAME)
      pendingAnalyses ==
        {request \in requests :
           Includes(TextOf[request.url],
                    TextOf["/api/advanced-lp-strategy"])}
      synced == IF tag = "sync-analysis" /\ net.kind = "ok"
                  THEN {request.url : request \in pendingAnalyses}
                  ELSE {}
  IN  /\ syncRun' =
           IF tag = "sync-analysis"
             THEN [n |-> syncRun.n + 1, pending |-> pendingAnalyses,
                   replayed |-> pendingAnalyses, deleted |-> synced]
             ELSE [syncRun EXCEPT !.n = @ + 1]
      /\ stored' =
           [k \in DOMAIN stored |->
              IF k[1] = DYNAMIC_CACHE_NAME /\ k[2] \in synced
                THEN <<>> ELSE stored[k]]
      /\ cacheStorage' =
           IF tag # "sync-analysis" \/ storageMode = "openRejects"
             THEN cacheStorage
             ELSE [cacheStorage EXCEPT
                     ![DYNAMIC_CACHE_NAME] = Bucket(@.urls \ synced)]
      /\ clientMessages' =
           clientMessages
             \cup {[type |-> "SYNC_SUCCESS", url |-> url] : url \in synced}
      /\ UNCHANGED <<storageMode, cacheMessage, swNow, pendingPuts, handler,
                     lifecycleVars, storeVars, keyVars, errVars, panelVars>>

\* the sync listener: for the tag 'sync-analysis', syncPendingAnalyses
\* replays the POST requests to /api/advanced-lp-strategy it finds among the
\* keys of the dynamic bucket; `net` is what fetch comes to for each of them.
\* When caches.open rejects, the catch clause logs the error.
SyncEvent(tag, net) ==
  LET requests == IF storageMode = "openRejects" THEN {}
                  ELSE CacheKeys(DYNAMIC_CACHE_NAME)
      pendingAnalyses ==
        {request \in requests :
           /\ Includes(TextOf[request.url],
                       TextOf["/api/advanced-lp-strategy"])
           /\ request.method = "POST"}
      synced == IF tag = "sync-analysis" /\ net.kind = "ok"
                  THEN {request.url : request \in pendingAnalyses}
                  ELSE {}
  IN  /\ syncRun' =
           IF tag = "sync-analysis"
             THEN [n |-> syncRun.n + 1, pending |-> pendingAnalyses,
                   replayed |-> pendingAnalyses, deleted |-> synced]
             ELSE [syncRun EXCEPT !.n = @ + 1]
      /\ stored' =
           [k \in DOMAIN stored |->
              IF k[1] = DYNAMIC_CACHE_NAME /\ k[2] \in synced
                THEN <<>> ELSE stored[k]]
      /\ cacheStorage' =
           IF tag # "sync-analysis" \/ storageMode = "openRejects"
             THEN cacheStorage
             ELSE [cacheStorage EXCEPT
                     ![DYNAMIC_CACHE_NAME] = Bucket(@.urls \ synced)]
      /\ clientMessages' =
           clientMessages
             \cup {[type |-> "SYNC_SUCCESS", url |-> url] : url \in synced}
      /\ UNCHANGED <<storageMode, cacheMessage, swNow, pendingPuts, handler,
                     lifecycleVars, storeVars, keyVars, errVars, panelVars>>

(***************************************************************************)
(* Spec: the whole store.                                                  *)
(***************************************************************************)
CanCall == ncalls < MaxCalls

Init == StoreInit /\ KeyIdle /\ SWIdle /\ FetchIdle /\ ErrIdle
        /\ PanelIdle /\ OfflineIdle

Next ==
  \/ \E key \in AnalysisKeys : CanCall /\ getCachedAnalysis(key)
  \/ \E key \in AnalysisKeys, data \in Data :
        CanCall /\ setCachedAnalysis(key, data)
  \/ CanCall /\ getCachedPools
  \/ \E data \in Data : CanCall /\ setCachedPools(data)
  \/ \E key \in OhlcvKeys : CanCall /\ getCachedOHLCV(key)
  \/ \E key \in OhlcvKeys, data \in Data : CanCall /\ setCachedOHLCV(key, data)
  \/ CanCall /\ clearCache
  \/ CanCall /\ pruneCache
  \/ \E e \in CacheExpiryChoices, s \in MaxCacheSizeChoices :
        updatePreferences([cacheExpiry |-> e, maxCacheSize |-> s])
  \/ TickMs
  \/ TickMinute

Spec == Init /\ [][Next]_vars

(***************************************************************************)
(* SpecLRU: the handlers that read or write the analyses map.              *)
(***************************************************************************)
CanCallLRU == ncalls < MaxLRUCalls

NextLRU ==
  \/ \E key \in AnalysisKeys : CanCallLRU /\ getCachedAnalysis(key)
  \/ \E key \in AnalysisKeys, data \in Data :
        CanCallLRU /\ setCachedAnalysis(key, data)
  \/ CanCallLRU /\ clearCache
  \/ CanCallLRU /\ pruneCache
  \/ \E e \in CacheExpiryChoices, s \in MaxCacheSizeChoices :
        updatePreferences([cacheExpiry |-> e, maxCacheSize |-> s])
  \/ TickMs
  \/ TickMinute

SpecLRU == Init /\ [][NextLRU]_vars

(***************************************************************************)
(* SpecKey: two calls of generateCacheKey on arguments of which the second *)
(* is the first, edited; the clock may tick between the calls.             *)
(***************************************************************************)
InitKey == StoreInit /\ KeyInit /\ SWIdle /\ FetchIdle /\ ErrIdle
           /\ PanelIdle /\ OfflineIdle

NextKey ==
  \/ GenerateFirst
  \/ GenerateSecond
  \/ TickMs

SpecKey == InitKey /\ [][NextKey]_vars

(***************************************************************************)
(* SpecSW: the life of one version of the service worker.                  *)
(***************************************************************************)
InitSW == StoreInit /\ KeyIdle /\ SWInit /\ FetchIdle /\ ErrIdle
          /\ PanelIdle /\ OfflineIdle

NextSW ==
  \/ InstallEvent
  \/ CachesOpen
  \/ \E asset \in STATIC_ASSETS, result \in {"ok", "failed"} :
        AddAllFetch(asset, result)
  \/ AddAllResolve
  \/ AddAllReject
  \/ ThenSkipWaiting
  \/ CatchError
  \/ InstallSettled
  \/ PreviousRetires
  \/ MessageSkipWaiting
  \/ ActivateEvent
  \/ ActivateKeys
  \/ \E name \in CacheNames : ActivateDelete(name)
  \/ ActivateClaim

SpecSW == InitSW /\ [][NextSW]_vars

(***************************************************************************)
(* SpecFrame: the cache handlers next to the handlers of the form, the     *)
(* preferences and the analysis timings.                                   *)
(***************************************************************************)
CanCallFrame == ncalls < MaxFrameCalls

\* updates setForm is called with
FormUpdates ==
  {[priceLower |-> [num |-> 30, den |-> 100]],
   [poolId |-> "0.0.1", advancedMode |-> TRUE]}

NextFrame ==
  \/ \E key \in FrameAnalysisKeys : CanCallFrame /\ getCachedAnalysis(key)
  \/ \E key \in FrameAnalysisKeys, data \in FrameData :
        CanCallFrame /\ setCachedAnalysis(key, data)
  \/ CanCallFrame /\ getCachedPools
  \/ \E data \in FrameData : CanCallFrame /\ setCachedPools(data)
  \/ \E key \in FrameOhlcvKeys : CanCallFrame /\ getCachedOHLCV(key)
  \/ \E key \in FrameOhlcvKeys, data \in FrameData :
        CanCallFrame /\ setCachedOHLCV(key, data)
  \/ CanCallFrame /\ clearCache
  \/ \E e \in CacheExpiryChoices, s \in MaxCacheSizeChoices :
        updatePreferences([cacheExpiry |-> e, maxCacheSize |-> s])
  \/ \E updates \in FormUpdates : setForm(updates)
  \/ resetForm
  \/ \E duration \in Durations :
        performance.analysesRun < MaxAnalyses /\ trackAnalysis(duration)
  \/ TickMs

SpecFrame == Init /\ [][NextFrame]_vars

(***************************************************************************)
(* SpecFetch: the activated worker handles fetch events, one at a time,    *)
(* while the puts it has made finish and time passes.                      *)
(***************************************************************************)
InitFetch == StoreInit /\ KeyIdle /\ SWActivated /\ FetchIdle /\ ErrIdle
             /\ PanelIdle /\ OfflineIdle

NextFetch ==
  \/ \E request \in Requests : FetchEvent(request)
  \/ \E net \in NetworkResults : networkFirstStrategy(net)
  \/ cacheFirstMatch
  \/ \E net \in NetworkResults : cacheFirstFetch(net)
  \/ \E net \in NetworkResults : apiHealthCheck(net)
  \/ apiCacheMatch
  \/ \E net \in NetworkResults : apiCacheFetch(net)
  \/ \E put \in pendingPuts : PutCompletes(put)
  \/ \E reading \in ClockReadings : Elapse(reading)

SpecFetch == InitFetch /\ [][NextFetch]_vars

(***************************************************************************)
(* SpecErr: one failed backend call.                                       *)
(***************************************************************************)
InitErr == StoreInit /\ KeyIdle /\ SWIdle /\ FetchIdle /\ ErrInit
           /\ PanelIdle /\ OfflineIdle

NextErr == ResponseRejected

SpecErr == InitErr /\ [][NextErr]_vars

(***************************************************************************)
(* SpecAnalyze: the panel, its store and the backend call of handleAnalyze.*)
(***************************************************************************)
NextAnalyze ==
  \/ \E pool \in PanelPools : setSelectedPool(pool)
  \/ \E updates \in PanelUpdates : setForm(updates)
  \/ Len(calls) < MaxAnalyzeCalls /\ handleAnalyze
  \/ \E data \in Data : AnalyzeResolves(data)
  \/ \E error \in AxiosErrors : AnalyzeRejects(error)

SpecAnalyze == Init /\ [][NextAnalyze]_vars

(***************************************************************************)
(* SpecOffline: the activated worker with its fetch, message and sync      *)
(* listeners, over a storage that may fail.                                *)
(***************************************************************************)
NextOffline ==
  \/ \E request \in Requests :
        handler.n < MaxOfflineFetches /\ FetchEvent(request)
  \/ \E net \in NetworkResults : networkFirstStrategy(net)
  \/ cacheFirstMatch
  \/ \E net \in NetworkResults : cacheFirstFetch(net)
  \/ \E net \in NetworkResults : apiHealthCheck(net)
  \/ apiCacheMatch
  \/ \E net \in NetworkResults : apiCacheFetch(net)
  \/ \E put \in pendingPuts : PutCompletes(put)
  \/ \E mode \in StorageModes : StorageTurns(mode)
  \/ cacheMessage.n + syncRun.n < MaxWorkerEvents /\ cacheAnalysisData
  \/ \E tag \in SyncTags, net \in NetworkResults :
        cacheMessage.n + syncRun.n < MaxWorkerEvents /\ SyncEvent(tag, net)

SpecOffline == InitFetch /\ [][NextOffline]_vars

(***************************************************************************)
(* Properties of the State Cache.                                          *)
(***************************************************************************)
\* the step is a call of handler `op`
IsCall(op) == ncalls' = ncalls + 1 /\ lastOp'.op = op

\* an entry for `key` exists and now - entry.timestamp <= cacheExpiry in ms
Fresh(m, key) ==
  /\ Has(m, key)
  /\ now - MapGet(m, key).timestamp <= preferences.cacheExpiry * 60000

TTLGet(op, m, mNext) ==
  IsCall(op) =>
    LET key == lastOp'.key
    IN  IF Fresh(m, key)
          THEN lastOp'.ret = MapGet(m, key).data
          ELSE lastOp'.ret = NULL /\ ~Has(mNext, key)

NoResurrection(setOp, m, mNext) ==
  \A key \in Keys(mNext) \ Keys(m) : IsCall(setOp) /\ lastOp'.key = key

\* C1: a get returns the stored value iff an entry exists and
\* now - entry.timestamp <= cacheExpiry (in ms); otherwise it returns absent
\* and the entry is gone, and a key that is absent stays absent (every later
\* get misses) until a set for that key.
C1_TTLInvariant ==
  [][ /\ TTLGet("getCachedAnalysis", analyses, analyses')
      /\ TTLGet("getCachedOHLCV", ohlcv, ohlcv')
      /\ TTLGet("getCachedPools", pools, pools')
      /\ NoResurrection("setCachedAnalysis", analyses, analyses')
      /\ NoResurrection("setCachedOHLCV", ohlcv, ohlcv')
      /\ NoResurrection("setCachedPools", pools, pools') ]_vars

\* cacheExpiry = 1 minute: a key set at 0 was read at 60001 ms, which missed
\* and removed it, and the read after that missed again
C1_Witness ==
  /\ preferences.cacheExpiry = 1
  /\ now = 60001
  /\ ncalls = 3
  /\ lastOp.op = "getCachedAnalysis"
  /\ lastOp.outcome = "absent"
  /\ lastOp.ret = NULL
  /\ lastOp.key \in inserted
  /\ performance.totalCacheMisses = 2

GetOutcome(op, m, mNext) ==
  IsCall(op) =>
    LET key    == lastOp'.key
        hits   == performance.totalCacheHits
        misses == performance.totalCacheMisses
    IN  IF ~Has(m, key)
          THEN /\ lastOp'.ret = NULL
               /\ performance'.totalCacheMisses = misses + 1
               /\ performance'.totalCacheHits = hits
               /\ mNext = m
        ELSE IF ~Fresh(m, key)
          THEN /\ lastOp'.ret = NULL
               /\ ~Has(mNext, key)
               /\ performance'.totalCacheMisses = misses + 1
               /\ performance'.totalCacheHits = hits
        ELSE /\ lastOp'.ret = MapGet(m, key).data
             /\ performance'.totalCacheHits = hits + 1
             /\ performance'.totalCacheMisses = misses
             /\ Has(mNext, key)
             /\ MapGet(mNext, key).accessCount = MapGet(m, key).accessCount + 1
             /\ MapGet(mNext, key).lastAccessed = now

\* accessCount is 0 after a set, one more after a read of the entry, and the
\* same after any other step that keeps the entry
AccessCounted(getOp, setOp, m, mNext) ==
  \A key \in Keys(mNext) :
    IF IsCall(setOp) /\ lastOp'.key = key
      THEN MapGet(mNext, key).accessCount = 0
    ELSE IF IsCall(getOp) /\ lastOp'.key = key
      THEN /\ Has(m, key)
           /\ MapGet(mNext, key).accessCount = MapGet(m, key).accessCount + 1
    ELSE /\ Has(m, key)
         /\ MapGet(mNext, key).accessCount = MapGet(m, key).accessCount

\* C2: every get has exactly one of the outcomes (a) no entry: absent, one
\* more miss; (b) stale entry: absent, entry deleted, one more miss; (c) fresh
\* entry: entry.data, one more hit, accessCount + 1, lastAccessed = now.
\* Hits + misses is the number of get calls, no counter decreases, and
\* accessCount counts the fresh reads since the entry was set.
C2_GetOutcomes ==
  /\ [](performance.totalCacheHits + performance.totalCacheMisses = getCalls)
  /\ [][ /\ GetOutcome("getCachedAnalysis", analyses, analyses')
         /\ GetOutcome("getCachedOHLCV", ohlcv, ohlcv')
         /\ GetOutcome("getCachedPools", pools, pools')
         /\ performance'.totalCacheHits >= performance.totalCacheHits
         /\ performance'.totalCacheMisses >= performance.totalCacheMisses
         /\ AccessCounted("getCachedAnalysis", "setCachedAnalysis",
                          analyses, analyses')
         /\ AccessCounted("getCachedOHLCV", "setCachedOHLCV", ohlcv, ohlcv')
         /\ AccessCounted("getCachedPools", "setCachedPools", pools, pools')
     ]_vars

\* an entry read twice since it was set
C2_Witness ==
  /\ performance.totalCacheHits = 2
  /\ getCalls = 2
  /\ lastOp.outcome = "fresh"
  /\ \E i \in DOMAIN analyses : analyses[i].accessCount = 2

SetWrites(op, m, mNext) ==
  IsCall(op) =>
    /\ Has(mNext, lastOp'.key)
    /\ MapGet(mNext, lastOp'.key) =
         [key |-> lastOp'.key, data |-> lastOp'.data, timestamp |-> now,
          accessCount |-> 0, lastAccessed |-> now]

GetAfterSet(setOp, getOp) ==
  (/\ lastOp.op = setOp
   /\ lastOp.at = now
   /\ IsCall(getOp)
   /\ lastOp'.key = lastOp.key) => lastOp'.ret = lastOp.data

\* C3: a set always leaves, for its key, the entry {data, timestamp = now,
\* accessCount = 0, lastAccessed = now}, whatever was there before, and the
\* get that follows it at once returns the data written.
C3_SetFreshEntry ==
  [][ /\ SetWrites("setCachedAnalysis", analyses, analyses')
      /\ SetWrites("setCachedOHLCV", ohlcv, ohlcv')
      /\ SetWrites("setCachedPools", pools, pools')
      /\ GetAfterSet("setCachedAnalysis", "getCachedAnalysis")
      /\ GetAfterSet("setCachedOHLCV", "getCachedOHLCV")
      /\ GetAfterSet("setCachedPools", "getCachedPools") ]_vars

\* C4: when setCachedAnalysis or setCachedOHLCV returns, the map it wrote
\* holds at most maxCacheSize entries.
C4_BoundedMemory ==
  [][ /\ IsCall("setCachedAnalysis")
         => Len(analyses') <= preferences.maxCacheSize
      /\ IsCall("setCachedOHLCV")
         => Len(ohlcv') <= preferences.maxCacheSize ]_vars

Min(a, b) == IF a <= b THEN a ELSE b

Entries(m) == {m[i] : i \in DOMAIN m}

\* what a step removed from the analyses map although the step did not
\* overwrite it; `written` is the set of entries the step itself wrote
Evicted(written) ==
  {e \in Entries(analyses) \cup written :
      /\ ~Has(analyses', e.key)
      /\ \A w \in written : e.key = w.key => e = w}

\* a step that may prune: the map is cut to maxCacheSize entries if it holds
\* more, and what it keeps was accessed no earlier than what it drops
PrunesLRU(written) ==
  /\ Len(analyses') =
       Min(preferences.maxCacheSize,
           Cardinality(Keys(analyses) \cup {w.key : w \in written}))
  /\ \A r \in Entries(analyses'), e \in Evicted(written) :
        r.lastAccessed >= e.lastAccessed

LRUStep ==
  /\ IsCall("setCachedAnalysis")
       => PrunesLRU({[key |-> lastOp'.key, data |-> lastOp'.data,
                      timestamp |-> now, accessCount |-> 0,
                      lastAccessed |-> now]})
  /\ IsCall("pruneCache") => PrunesLRU({})

\* C5 as stated: with maxCacheSize = N, once more than N distinct keys have
\* been inserted (whatever reads came between), the analyses map holds
\* exactly N entries.
C5_ExactlyN ==
  Cardinality(inserted) > preferences.maxCacheSize
    => Len(analyses) = preferences.maxCacheSize

\* C5 as amended: with maxCacheSize = N, once more than N distinct keys have
\* been inserted the analyses map holds at most N entries; it falls below N
\* only when a get deletes a stale entry; every set or prune that finds more
\* than N entries leaves exactly N, and each entry it keeps has
\* lastAccessed >= that of each entry it evicts.
C5_LRUPruning ==
  /\ [](Cardinality(inserted) > preferences.maxCacheSize
          => Len(analyses) <= preferences.maxCacheSize)
  /\ [][ /\ LRUStep
         /\ (/\ Cardinality(inserted) > preferences.maxCacheSize
             /\ Cardinality(inserted') > preferences'.maxCacheSize
             /\ Len(analyses) = preferences.maxCacheSize
             /\ Len(analyses') < preferences.maxCacheSize)
            => (IsCall("getCachedAnalysis") /\ lastOp'.outcome = "stale")
     ]_vars

\* N = 2, three keys inserted: the entry read after its insertion was kept,
\* a key inserted after it was evicted
C5_Witness ==
  /\ preferences.maxCacheSize = 2
  /\ Cardinality(inserted) = 3
  /\ Len(analyses) = 2
  /\ lastOp.op = "setCachedAnalysis"
  /\ \E i \in DOMAIN analyses :
        /\ analyses[i].key # lastOp.key
        /\ analyses[i].accessCount = 1
        /\ analyses[i].timestamp = 0
        /\ analyses[i].lastAccessed > 0
        /\ lastOp.at = analyses[i].lastAccessed

HitRateIs(q, hits, misses) ==
  /\ q.den # 0
  /\ q.num * (hits + misses) = hits * q.den

\* C6: once a hit or a miss has been recorded, cacheHitRate is
\* totalCacheHits / (totalCacheHits + totalCacheMisses).
C6_HitRate ==
  performance.totalCacheHits + performance.totalCacheMisses > 0
    => HitRateIs(performance.cacheHitRate,
                 performance.totalCacheHits, performance.totalCacheMisses)

\* a hit and a miss recorded, the last call a read of a stale entry
C6_Witness ==
  /\ performance.totalCacheHits = 1
  /\ performance.totalCacheMisses = 1
  /\ lastOp.outcome = "stale"

\* C7: with no hit and no miss recorded, the cacheHitRate that
\* getPerformanceStats returns is NaN, not 0.
C7_NoDataIsNaN ==
  (/\ getPerformanceStats.totalCacheHits = 0
   /\ getPerformanceStats.totalCacheMisses = 0)
    => IsNaN(getPerformanceStats.cacheHitRate)

(***************************************************************************)
(* Properties of the cache key.                                            *)
(***************************************************************************)
\* the two calls agree on every form field that generateCacheKey reads
SameIncludedFields ==
  \A f \in KeyFields : FormGet(callA.form, f) = FormGet(callB.form, f)

\* C8: two calls of generateCacheKey with the same pool id and forms that
\* agree on the included fields give the same key, whatever the order of the
\* forms' properties, whatever form.poolId is, and whatever happened to the
\* store between the calls.
C8_KeyDeterminism ==
  (kpc = "done" /\ callA.poolId = callB.poolId /\ SameIncludedFields)
    => keyA = keyB

\* the second form lists its properties in another order and carries another
\* poolId, the clock ticked, and both calls returned the same key
C8_Witness ==
  /\ kpc = "done"
  /\ now = 1
  /\ callA.poolId = callB.poolId
  /\ SameIncludedFields
  /\ Len(callA.form) = 9
  /\ Len(callB.form) = 9
  /\ callA.form[1][1] # callB.form[1][1]
  /\ FormGet(callA.form, "poolId") # FormGet(callB.form, "poolId")
  /\ ~keyA.threw
  /\ keyA.value # <<>>
  /\ keyA = keyB

\* the query analyzeStrategy sends for the request a call's key stands for
Request(call) ==
  analyzeStrategyQuery(WithField(call.form, "poolId", call.poolId))

\* C9: two calls of generateCacheKey that differ in the pool id or in an
\* included field return different keys, and two calls whose requests to
\* /advanced-lp-strategy have different query strings return different keys.
C9_KeyInjectivity ==
  (kpc = "done" /\ ~keyA.threw /\ ~keyB.threw) =>
    /\ (callA.poolId # callB.poolId \/ ~SameIncludedFields)
          => keyA.value # keyB.value
    /\ (/\ ~Request(callA).threw
        /\ ~Request(callB).threw
        /\ Request(callA).value # Request(callB).value)
          => keyA.value # keyB.value

(***************************************************************************)
(* Properties of the service worker.                                       *)
(***************************************************************************)
\* C10: once a request of cache.addAll has failed during install, the worker
\* neither finishes installing nor activates, a previous version is not
\* replaced, and the static bucket holds none or all of STATIC_ASSETS.
C10_InstallAtomicity ==
  addAllRejected =>
    /\ swState \in {"installing", "redundant"}
    /\ previous # "replaced"
    /\ cacheStorage[STATIC_CACHE_NAME].urls \in {{}, STATIC_ASSETS}

\* C15: when the worker is activated, and already when the clients are
\* claimed, no bucket exists under a name other than STATIC_CACHE_NAME and
\* DYNAMIC_CACHE_NAME, and no step of the activation changes either of the
\* two current buckets.
C15_ActivationCleanup ==
  [][/\ (swState' = "activated" \/ claimed') =>
          \A name \in CacheNames \ {STATIC_CACHE_NAME, DYNAMIC_CACHE_NAME} :
             ~cacheStorage'[name].exists
     /\ swState = "activating" =>
          /\ cacheStorage'[STATIC_CACHE_NAME] = cacheStorage[STATIC_CACHE_NAME]
          /\ cacheStorage'[DYNAMIC_CACHE_NAME] =
               cacheStorage[DYNAMIC_CACHE_NAME]
    ]_vars

\* the worker replaced a previous version that had left its buckets under
\* the older names, and its own static bucket holds the assets
C15_Witness ==
  /\ swState = "activated"
  /\ claimed
  /\ previous = "replaced"
  /\ ~cacheStorage[DYNAMIC_CACHE_NAME].exists
  /\ cacheStorage[STATIC_CACHE_NAME] = Bucket(STATIC_ASSETS)
  /\ \A name \in OldCacheNames : ~cacheStorage[name].exists

(***************************************************************************)
(* Frame of clearCache.                                                    *)
(***************************************************************************)
\* the step is a get call that follows a clearCache call with no other
\* cache handler call between the two
GetAfterClear ==
  /\ lastOp.op = "clearCache"
  /\ ncalls' = ncalls + 1
  /\ lastOp'.op \in {"getCachedAnalysis", "getCachedPools", "getCachedOHLCV"}

\* C18: clearCache empties the analyses map, the OHLCV map and the pools
\* entry whatever they held, leaves the performance metrics, the preferences
\* and the form as they were, and a get that follows it is a miss.
C18_ClearCacheFrame ==
  [][/\ IsCall("clearCache") =>
          /\ analyses' = <<>> /\ ohlcv' = <<>> /\ pools' = <<>>
          /\ performance' = performance
          /\ preferences' = preferences
          /\ storeForm' = storeForm
     /\ GetAfterClear =>
          /\ lastOp'.outcome = "absent"
          /\ lastOp'.ret = NULL
          /\ performance'.totalCacheMisses = performance.totalCacheMisses + 1
    ]_vars

\* a get missed right after a clearCache that found counted hits, a timed
\* analysis, changed preferences and an edited form
C18_Witness ==
  /\ lastOp.op \in {"getCachedAnalysis", "getCachedPools", "getCachedOHLCV"}
  /\ lastOp.outcome = "absent"
  /\ inserted = {}
  /\ ncalls = MaxFrameCalls
  /\ performance.totalCacheHits > 0
  /\ performance.totalCacheMisses = 1
  /\ performance.analysesRun > 0
  /\ preferences # defaultPreferences
  /\ storeForm # defaultForm

(***************************************************************************)
(* Error normalisation.                                                    *)
(***************************************************************************)
\* the error came with a response of this status
HasStatus(status) ==
  axiosError.response # <<>> /\ axiosError.response[1].status = status

\* the body of the response has an `error` property
HasErrorField ==
  axiosError.response # <<>> /\ axiosError.response[1].error # <<>>

\* C19, as stated: the call is rejected with one message: for status 404
\* the resource-not-found message, else for status 500 the server-error
\* message, else for code ECONNABORTED the request-timeout message, else the
\* error field of the body if the body has one, else the raw error message.
C19_ErrorFieldIfPresent ==
  rejection # <<>> =>
    /\ Len(rejection) = 1
    /\ rejection[1] =
         IF HasStatus(404) THEN "Resource not found. Please check your inputs."
         ELSE IF HasStatus(500) THEN "Server error. Please try again later."
         ELSE IF axiosError.code = "ECONNABORTED"
           THEN "Request timeout. The analysis is taking longer than expected."
         ELSE IF HasErrorField THEN axiosError.response[1].error[1]
         ELSE axiosError.message

\* C19, amended: the same priority order, but the error field is used only
\* if it is a non-empty text, and an empty raw message is replaced by
\* 'An unexpected error occurred'; a 404 or 500 response that carries an
\* error field still yields the status-based message.
C19_ErrorNormalization ==
  rejection # <<>> =>
    /\ Len(rejection) = 1
    /\ HasStatus(404) =>
          rejection[1] = "Resource not found. Please check your inputs."
    /\ HasStatus(500) =>
          rejection[1] = "Server error. Please try again later."
    /\ ~HasStatus(404) /\ ~HasStatus(500) =>
          /\ axiosError.code = "ECONNABORTED" =>
                rejection[1] = "Request timeout. The analysis is taking "
                                 \o "longer than expected."
          /\ axiosError.code # "ECONNABORTED" =>
                /\ HasErrorField /\ axiosError.response[1].error[1] # "" =>
                      rejection[1] = axiosError.response[1].error[1]
                /\ ~(HasErrorField /\ axiosError.response[1].error[1] # "") =>
                      /\ axiosError.message # "" =>
                            rejection[1] = axiosError.message
                      /\ axiosError.message = "" =>
                            rejection[1] = "An unexpected error occurred"

\* a 404 response that carries an error field was rejected with the
\* status-based message
C19_Witness ==
  /\ HasStatus(404)
  /\ HasErrorField
  /\ axiosError.response[1].error[1] = "Pool not found"
  /\ rejection = <<"Resource not found. Please check your inputs.">>

(***************************************************************************)
(* Properties of the fetch strategies.                                     *)
(***************************************************************************)
\* the step is taken by the handler of an API request that is not a health
\* check, at position pc of apiCacheStrategy
ApiStep(pc) ==
  /\ handler.strategy = "apiCache"
  /\ handler.request.url # "/api/health"
  /\ handler.pc = pc
  /\ handler' # handler

\* C11: the copy apiCacheStrategy works with is the one caches.match finds
\* when the strategy starts; when its fetch throws, the strategy resolves
\* with that copy if there is one, and rejects only if there is none.
C11_StaleServe ==
  [][/\ ApiStep("run") => handler'.cached = Match(handler.request.url)
     /\ ApiStep("fetch") /\ handler'.network = "threw" =>
          /\ handler.cached # <<>> =>
                handler'.result = [kind |-> "response",
                                   response |-> handler.cached]
          /\ handler.cached = <<>> => handler'.result.kind = "rejected"
     /\ ApiStep("fetch") /\ handler'.result.kind = "rejected" =>
          handler.cached = <<>> /\ handler'.network = "threw"
    ]_vars

\* the refresh of a copy dated more than 5 minutes ago threw, and the
\* strategy resolved with the copy
C11_Witness ==
  /\ handler.strategy = "apiCache"
  /\ handler.request.url = "/api/pools"
  /\ handler.pc = "done"
  /\ handler.network = "threw"
  /\ handler.cached # <<>>
  /\ handler.cached[1].date # <<>>
  /\ swNow - handler.cached[1].date[1] > 5 * 60 * 1000
  /\ handler.result.response = handler.cached

\* C12: when apiCacheStrategy starts on a request whose cached response has
\* a Date header less than 5 minutes before now, it resolves with that
\* response and makes no network request; when the cached response is dated
\* 5 minutes ago or earlier, or has no Date header, it goes on to the network
\* before resolving; and when the network response is ok the strategy
\* resolves with it and has put it into the dynamic bucket.
C12_Freshness ==
  [][LET cachedResponse == Match(handler.request.url)
         age == swNow - cachedResponse[1].date[1]
     IN  /\ (/\ ApiStep("run")
              /\ cachedResponse # <<>>
              /\ cachedResponse[1].date # <<>>
              /\ age < 5 * 60 * 1000)
               => /\ handler'.pc = "done"
                  /\ handler'.network = "none"
                  /\ handler'.result = [kind |-> "response",
                                        response |-> cachedResponse]
                  /\ pendingPuts' = pendingPuts
         /\ (/\ ApiStep("run")
              /\ cachedResponse # <<>>
              /\ (cachedResponse[1].date = <<>> \/ age >= 5 * 60 * 1000))
               => /\ handler'.pc = "fetch"
                  /\ handler'.result.kind = "none"
         /\ ApiStep("fetch") => handler'.network # "none"
         /\ ApiStep("fetch") /\ handler'.network = "ok" =>
               /\ handler'.result.kind = "response"
               /\ handler'.result.response[1].origin = "network"
               /\ handler'.result.response[1].serial = handler.n
               /\ [bucket |-> DYNAMIC_CACHE_NAME,
                   url |-> handler.request.url,
                   response |-> handler'.result.response[1]]
                    \in pendingPuts'
    ]_vars

\* the strategy answered from a copy dated 299 seconds ago, without a
\* network request
C12_Witness ==
  /\ handler.strategy = "apiCache"
  /\ handler.request.url = "/api/pools"
  /\ handler.pc = "done"
  /\ handler.network = "none"
  /\ handler.cached # <<>>
  /\ handler.cached[1].date = <<swNow - 299000>>
  /\ handler.result.response = handler.cached

\* C13, first part: once a static asset has been fetched with an ok response
\* by cacheFirstStrategy, every later cacheFirstStrategy for the same URL
\* resolves with the response of the first such fetch and makes no network
\* request.  Second part: when nothing is stored and the fetch throws, the
\* strategy rejects.
C13_CacheFirstRoundTrip ==
  [][LET url == handler.request.url
         fetchedOnce ==
           {put.response : put \in {q \in pendingPuts :
                                      /\ q.bucket = STATIC_CACHE_NAME
                                      /\ q.url = url}}
             \cup {r \in {stored[<<STATIC_CACHE_NAME, url>>][i] :
                            i \in DOMAIN stored[<<STATIC_CACHE_NAME, url>>]} :
                      r.origin = "network"}
         step == /\ handler.strategy = "cacheFirst"
                 /\ handler' # handler
     IN  /\ step /\ handler.pc = "run" /\ fetchedOnce # {} =>
               /\ handler'.pc = "done"
               /\ handler'.network = "none"
               /\ handler'.result.kind = "response"
               /\ handler'.result.response[1] \in fetchedOnce
               /\ \A r \in fetchedOnce :
                     handler'.result.response[1].serial <= r.serial
         /\ step /\ handler.pc = "fetch" /\ handler'.network = "threw" =>
               handler'.result.kind = "rejected"
    ]_vars

\* C14: when the fetch of networkFirstStrategy throws, the strategy resolves
\* with the cached response if there is one; with none, it resolves with a
\* response for a document request and rejects for any other request.
C14_NetworkFirstFailure ==
  (/\ handler.strategy = "networkFirst"
   /\ handler.pc = "done"
   /\ handler.network = "threw")
    => /\ handler.cached # <<>> =>
             handler.result = [kind |-> "response",
                               response |-> handler.cached]
       /\ handler.cached = <<>> /\ handler.request.destination = "document" =>
             handler.result.kind = "response"
       /\ handler.cached = <<>> /\ handler.request.destination # "document" =>
             handler.result.kind = "rejected"

\* the step is taken by the handler of a health check
HealthStep ==
  /\ handler.strategy = "apiCache"
  /\ handler.request.url = "/api/health"
  /\ handler.pc = "run"
  /\ handler' # handler

\* C17: the handler of a health check always makes its network request; when
\* the network responds the handler resolves with that response; when the
\* fetch throws it resolves with the cached response, or with a status-503
\* response when nothing is cached; it never rejects, and it puts nothing
\* into a bucket.
C17_HealthCheck ==
  [][HealthStep =>
       LET cachedResponse == Match(handler.request.url)
           result == handler'.result
       IN  /\ handler'.pc = "done"
           /\ handler'.network # "none"
           /\ result.kind = "response"
           /\ handler'.network # "threw" =>
                 /\ result.response[1].origin = "network"
                 /\ result.response[1].serial = handler.n
           /\ handler'.network = "threw" /\ cachedResponse # <<>> =>
                 result.response = cachedResponse
           /\ handler'.network = "threw" /\ cachedResponse = <<>> =>
                 /\ result.response[1].origin = "offline"
                 /\ result.response[1].status = 503
           /\ pendingPuts' = pendingPuts
           /\ stored' = stored
           /\ cacheStorage' = cacheStorage
    ]_vars

\* a health check whose fetch threw while nothing was cached got the 503
C17_Witness ==
  /\ handler.strategy = "apiCache"
  /\ handler.request.url = "/api/health"
  /\ handler.pc = "done"
  /\ handler.network = "threw"
  /\ handler.cached = <<>>
  /\ handler.result.kind = "response"
  /\ handler.result.response[1].status = 503

\* C20: when a strategy that writes through resolves with an ok network
\* response, the bucket it writes to already holds that response under the
\* URL of the request.
C20_WriteThroughOrder ==
  [][(/\ handler'.pc = "done"
      /\ handler.pc # "done"
      /\ handler'.network = "ok"
      /\ ~(handler.strategy = "apiCache"
            /\ handler.request.url = "/api/health"))
       => stored'[<<IF handler.strategy = "cacheFirst"
                      THEN STATIC_CACHE_NAME ELSE DYNAMIC_CACHE_NAME,
                    handler.request.url>>] = handler'.result.response
    ]_vars

(***************************************************************************)
(* C22: every entry of the three caches has lastAccessed >= timestamp in   *)
(* every reachable state; a set writes timestamp and lastAccessed from the *)
(* clock reading of the call, and a hit leaves the timestamp of the entry  *)
(* it read as it was and never moves its lastAccessed backwards.           *)
(***************************************************************************)
HitKeepsStamp(op, m, mNext) ==
  (IsCall(op) /\ lastOp'.outcome = "fresh") =>
    LET before == IF op = "getCachedPools" THEN m[1] ELSE MapGet(m, lastOp'.key)
        after  == IF op = "getCachedPools" THEN mNext[1]
                  ELSE MapGet(mNext, lastOp'.key)
    IN  /\ after.timestamp = before.timestamp
        /\ after.lastAccessed >= before.lastAccessed
        /\ after.lastAccessed = lastOp'.at

SetStampsBoth(op, mNext) ==
  IsCall(op) =>
    \A e \in Entries(mNext) :
      e.key = lastOp'.key =>
        e.timestamp = lastOp'.at /\ e.lastAccessed = lastOp'.at

C22_AccessNotBeforeWrite ==
  /\ [](\A e \in Entries(analyses) \cup Entries(ohlcv) \cup Entries(pools) :
          e.lastAccessed >= e.timestamp)
  /\ [][/\ HitKeepsStamp("getCachedAnalysis", analyses, analyses')
        /\ HitKeepsStamp("getCachedOHLCV", ohlcv, ohlcv')
        /\ HitKeepsStamp("getCachedPools", pools, pools')
        /\ SetStampsBoth("setCachedAnalysis", analyses')
        /\ SetStampsBoth("setCachedOHLCV", ohlcv')
        /\ SetStampsBoth("setCachedPools", pools')]_vars

\* a hit moved lastAccessed of an entry past its timestamp
C22_Witness ==
  /\ lastOp.outcome = "fresh"
  /\ \E e \in Entries(analyses) \cup Entries(ohlcv) \cup Entries(pools) :
       e.key = lastOp.key /\ e.lastAccessed > e.timestamp

(***************************************************************************)
(* C23: updatePreferences leaves the three caches and the performance      *)
(* counters as they were; a get finds an entry stale exactly when its age  *)
(* exceeds the cacheExpiry in force at that get; and the size test of a   *)
(* set (setCachedAnalysis, the set that has one) uses the maxCacheSize in  *)
(* force at that set, so that it leaves at most that many entries.         *)
(***************************************************************************)
StaleByExpiryInForce(op, m) ==
  IsCall(op) =>
    LET key == lastOp'.key
    IN  /\ lastOp'.outcome = "stale" <=> (Has(m, key) /\ ~Fresh(m, key))
        /\ lastOp'.outcome = "fresh" <=> Fresh(m, key)

BoundBySizeInForce(op, mNext) ==
  IsCall(op) => Len(mNext) <= preferences.maxCacheSize

C23_LazyPreferences ==
  [][ /\ preferences' # preferences =>
           UNCHANGED <<analyses, ohlcv, pools, performance>>
      /\ StaleByExpiryInForce("getCachedAnalysis", analyses)
      /\ StaleByExpiryInForce("getCachedOHLCV", ohlcv)
      /\ StaleByExpiryInForce("getCachedPools", pools)
      /\ BoundBySizeInForce("setCachedAnalysis", analyses') ]_vars

\* maxCacheSize was lowered below the number of analyses held, which were
\* all kept, and a get then found one of them fresh
C23_Witness ==
  /\ Len(analyses) > preferences.maxCacheSize
  /\ lastOp.op = "getCachedAnalysis" /\ lastOp.outcome = "fresh"

(***************************************************************************)
(* C30: a get or a set on one class of the cache (analyses, OHLCV, pools)  *)
(* leaves the entries of the other two classes as they were, the stale     *)
(* deletion of a get and the pruning of setCachedAnalysis included, and    *)
(* every other key the map still holds keeps its data, timestamp,          *)
(* accessCount and lastAccessed.                                           *)
(***************************************************************************)
OtherKeysKept(m, mNext) ==
  \A key \in Keys(mNext) \ {lastOp'.key} :
    Has(m, key) /\ MapGet(mNext, key) = MapGet(m, key)

C30_ClassIndependence ==
  [][ /\ (IsCall("getCachedAnalysis") \/ IsCall("setCachedAnalysis")) =>
           /\ UNCHANGED <<ohlcv, pools>>
           /\ OtherKeysKept(analyses, analyses')
      /\ (IsCall("getCachedOHLCV") \/ IsCall("setCachedOHLCV")) =>
           /\ UNCHANGED <<analyses, pools>>
           /\ OtherKeysKept(ohlcv, ohlcv')
      /\ (IsCall("getCachedPools") \/ IsCall("setCachedPools")) =>
           UNCHANGED <<analyses, ohlcv>> ]_vars

\* a get deleted the stale entry of its key while the same map held another
\* key, or another class held an entry
C30_Witness ==
  /\ lastOp.outcome = "stale"
  /\ lastOp.op \in {"getCachedAnalysis", "getCachedOHLCV"}
  /\ Len(analyses) + Len(ohlcv) + Len(pools) > 0

(***************************************************************************)
(* C24: the fetch listener gives every GET request to exactly one strategy:*)
(* network-first for a document; else the API strategy for a pathname that *)
(* starts with /api/ or contains /api/pools, /api/health or /api/ohlcv;    *)
(* else cache-first for a pathname that starts with /static/ or /assets/   *)
(* or ends with a listed extension; else network-first.  A request of      *)
(* another method gets no strategy, and no bucket is read or written for   *)
(* it.                                                                     *)
(***************************************************************************)
\* the pathnames requested that start with /api/ or contain an API pattern
ApiPath(url) ==
  url \in {"/api/pools", "/api/health", "/api/advanced-lp-strategy",
           "/assets/api/pools.png"}

\* the pathnames requested that start with /static/ or /assets/ or end with
\* a listed extension
StaticPath(url) ==
  url \in {"/static/js/main.js", "/static/css/main.css", "/assets/logo.png",
           "/assets/api/pools.png"}

Dispatched(request) ==
  IF request.destination = "document" THEN "networkFirst"
  ELSE IF ApiPath(request.url) THEN "apiCache"
  ELSE IF StaticPath(request.url) THEN "cacheFirst"
  ELSE "networkFirst"

StrategyStep(strategy) ==
  /\ handler.pc \in {"run", "fetch"}
  /\ handler' # handler
  /\ handler.strategy = strategy

C24_StrategyDispatch ==
  [][ /\ handler'.n = handler.n + 1 =>
           IF handler'.request.method = "GET"
             THEN /\ handler'.strategy = Dispatched(handler'.request)
                  /\ handler'.pc = "run"
             ELSE /\ handler'.strategy = "none"
                  /\ handler'.pc = "done"
                  /\ handler'.result.kind = "unhandled"
                  /\ UNCHANGED <<stored, pendingPuts, cacheStorage>>
      /\ handler' # handler /\ handler'.n = handler.n =>
           /\ handler.request.method = "GET"
           /\ handler'.strategy = handler.strategy
           /\ handler'.request = handler.request
      /\ StrategyStep("networkFirst") =>
           \E net \in NetworkResults : networkFirstStrategy(net)
      /\ StrategyStep("cacheFirst") =>
           \/ cacheFirstMatch
           \/ \E net \in NetworkResults : cacheFirstFetch(net)
      /\ StrategyStep("apiCache") =>
           \/ apiCacheMatch
           \/ \E net \in NetworkResults :
                apiHealthCheck(net) \/ apiCacheFetch(net) ]_vars

\* a GET of an image under /assets/ whose pathname contains /api/pools was
\* answered by the API strategy
C24_Witness ==
  /\ handler.request.url = "/assets/api/pools.png"
  /\ handler.strategy = "apiCache"
  /\ handler.pc = "done"
  /\ handler.result.kind = "response"

(***************************************************************************)
(* C27: whatever a fetch strategy writes to the static or the dynamic      *)
(* bucket is a response with an ok status.  A network response that is not *)
(* ok is what the strategy resolves with, no put is made for it, and the   *)
(* copy held under the URL stays as it was.                                *)
(***************************************************************************)
IsOk(response) == response.status >= 200 /\ response.status <= 299

C27_OnlyOkStored ==
  /\ [](/\ \A put \in pendingPuts : IsOk(put.response)
        /\ \A k \in DOMAIN stored : \A i \in DOMAIN stored[k] :
             IsOk(stored[k][i]))
  /\ [][(handler' # handler /\ handler'.network = "notOk") =>
          /\ handler'.result.kind = "response"
          /\ handler'.result.response[1].origin = "network"
          /\ handler'.result.response[1].serial = handler.n
          /\ ~IsOk(handler'.result.response[1])
          /\ UNCHANGED <<stored, pendingPuts>>]_vars

\* a strategy resolved with a 404 from the network while the dynamic bucket
\* held an earlier ok response under the same URL, and kept it
C27_Witness ==
  /\ handler.network = "notOk"
  /\ handler.pc = "done"
  /\ handler.result.response[1].status = 404
  /\ stored[<<DYNAMIC_CACHE_NAME, handler.request.url>>] # <<>>
  /\ stored[<<DYNAMIC_CACHE_NAME, handler.request.url>>][1].origin = "network"

\* C25: two calls of generateCacheKey whose requests analyzeStrategy turns
\* into the same /advanced-lp-strategy query string return the same key, also
\* when an optional field is left out of one form and has its default value
\* (bearCaseDrop 20, bullCaseRise 20, timeHorizonDays 30, advancedMode false,
\* backtestMode false) in the other.
C25_SameQuerySameKey ==
  (/\ kpc = "done"
   /\ ~keyA.threw /\ ~keyB.threw
   /\ ~Request(callA).threw /\ ~Request(callB).threw
   /\ Request(callA).value = Request(callB).value)
    => keyA.value = keyB.value

(***************************************************************************)
(* C29: when the backend call of handleAnalyze settles, ui.isLoading is    *)
(* false; after a success results holds the response and ui.error is null; *)
(* after a failure results is null and ui.error is a non-empty message.    *)
(* When handleAnalyze finds no selected pool, priceLower >= priceUpper or  *)
(* liquidityUsd <= 0, it issues no request, sets ui.error and leaves       *)
(* ui.isLoading and results as they were.                                  *)
(***************************************************************************)
Settles(outcome) ==
  /\ calls # <<>>
  /\ Len(calls') = Len(calls)
  /\ calls[Len(calls)].outcome = "pending"
  /\ calls'[Len(calls)].outcome = outcome

InvalidInput ==
  \/ selectedPool = NULL
  \/ storeForm.priceLower.num * storeForm.priceUpper.den
       >= storeForm.priceUpper.num * storeForm.priceLower.den
  \/ storeForm.liquidityUsd <= 0

C29_AnalyzeOutcomes ==
  [][ /\ Settles("ok") =>
           /\ ui'.isLoading = FALSE
           /\ results' = calls'[Len(calls)].data
           /\ results' # <<>>
           /\ ui'.error = <<>>
      /\ Settles("failed") =>
           /\ ui'.isLoading = FALSE
           /\ results' = <<>>
           /\ ui'.error # <<>>
           /\ ui'.error[1] # ""
      /\ InvalidInput => Len(calls') = Len(calls)
      /\ (InvalidInput /\ ~isAnalyzing /\ ui' # ui) =>
           /\ ui'.error # <<>>
           /\ ui'.error[1] # ""
           /\ ui'.isLoading = ui.isLoading
           /\ results' = results
           /\ calls' = calls
      /\ (~isAnalyzing /\ isAnalyzing') =>
           /\ Len(calls') = Len(calls) + 1
           /\ ~InvalidInput ]_vars

\* a request failed after an earlier one had succeeded: the results of the
\* earlier one are gone and an error message is shown
C29_Witness ==
  /\ Len(calls) = 2
  /\ calls[1].outcome = "ok"
  /\ calls[2].outcome = "failed"
  /\ results = <<>>
  /\ ui.error # <<>>
  /\ ~ui.isLoading

(***************************************************************************)
(* C26: a request is issued for an analysis only in a step that looked the *)
(* key up in the analyses cache and missed; when the request succeeds, its *)
(* result is in the analyses cache with the timestamp of that moment; and  *)
(* no request is issued for a form whose request has succeeded within      *)
(* cacheExpiry.                                                            *)
(***************************************************************************)
C26_ReadThrough ==
  [][ /\ Len(calls') = Len(calls) + 1 =>
           /\ IsCall("getCachedAnalysis")
           /\ lastOp'.outcome \in {"absent", "stale"}
           /\ \A i \in DOMAIN calls :
                ~(calls[i].outcome = "ok" /\ calls[i].form = storeForm)
      /\ Settles("ok") =>
           \E e \in Entries(analyses') :
             e.data = results'[1] /\ e.timestamp = now ]_vars

(***************************************************************************)
(* C21: a strategy whose network fetch has succeeded resolves with that    *)
(* network response, whether opening the bucket or writing to it fails or  *)
(* not: it neither rejects nor resolves with a cached copy or with the     *)
(* offline placeholder.  The promise of cacheAnalysisData never rejects,   *)
(* also when its put fails.                                                *)
(***************************************************************************)
C21_StorageErrorsSwallowed ==
  /\ [](cacheMessage.settled # "rejected")
  /\ [][(handler' # handler /\ handler'.network = "ok") =>
          /\ handler'.result.kind = "response"
          /\ handler'.result.response[1].origin = "network"
          /\ handler'.result.response[1].serial = handler.n]_vars

(***************************************************************************)
(* C28: whatever fetch, message and sync events the worker handles, the    *)
(* dynamic bucket holds no POST request: a strategy only runs, and a put   *)
(* is only made, for a GET request, and CACHE_ANALYSIS writes under the    *)
(* GET key /offline-analysis.  So every run of syncPendingAnalyses finds   *)
(* no pending request, replays and deletes nothing and changes no bucket   *)
(* entry, and no SYNC_SUCCESS message is ever posted.                      *)
(***************************************************************************)
C28_NothingToSync ==
  /\ [](/\ \A request \in CacheKeys(DYNAMIC_CACHE_NAME) :
             request.method = "GET"
        /\ \A put \in pendingPuts :
             \E request \in Requests :
               request.url = put.url /\ request.method = "GET"
        /\ syncRun.pending = {}
        /\ syncRun.replayed = {}
        /\ syncRun.deleted = {}
        /\ clientMessages = {})
  /\ [][ /\ syncRun' # syncRun => stored' = stored
         /\ pendingPuts' # pendingPuts /\ handler' # handler
              => handler.request.method = "GET"
         /\ cacheMessage' # cacheMessage =>
              \A k \in DOMAIN stored :
                stored'[k] # stored[k]
                  => k = <<DYNAMIC_CACHE_NAME, "/offline-analysis">> ]_vars

\* a sync event for 'sync-analysis' ran while the dynamic bucket held the
\* response of a GET to /api/advanced-lp-strategy, and left it there
C28_Witness ==
  /\ syncRun.n >= 1
  /\ syncRun.pending = {}
  /\ stored[<<DYNAMIC_CACHE_NAME, "/api/advanced-lp-strategy">>] # <<>>
  /\ cacheMessage.put = "stored"
  /\ stored[<<DYNAMIC_CACHE_NAME, "/offline-analysis">>] # <<>>

====
